---------------------------- MODULE Spec2Model ----------------------------
(***************************************************************************)
(* A model of the AINB decoder (package ainb): the enum resolver, the      *)
(* phase order of AINB.read, the query-index fix-up, the selector plug     *)
(* decode and the JSON view.                                               *)
(*                                                                         *)
(* The byte stream is a sequence of bytes; file offsets are 0-based as in  *)
(* the source, so the byte at file offset o is stream[o + 1].              *)
(***************************************************************************)
EXTENDS Integers, Sequences, FiniteSets, TLC

(***************************************************************************)
(* Bounds of the model.                                                    *)
(***************************************************************************)
\* length of the byte stream handed to the enum resolver
BufLen == 5
\* longest enum-resolve table
MaxPatches == 2
\* most nodes of a file
MaxNodes == 2
\* longest query list of a file
MaxQueries == 2
\* most child plugs of a node
MaxPlugs == 2

(***************************************************************************)
(* Helpers.                                                                *)
(***************************************************************************)
Max(a, b) == IF a >= b THEN a ELSE b

Min(a, b) == IF a <= b THEN a ELSE b

\* s[from : to] of Python (0-based, end exclusive, clamped to the list).
Slice(s, from, to) ==
    LET lo == Min(from, Len(s))
        hi == Min(to, Len(s))
    IN  IF hi <= lo THEN <<>> ELSE [i \in 1..(hi - lo) |-> s[lo + i]]

(***************************************************************************)
(* The enum resolver (ainb.py, AINB._process_enum_resolve).                *)
(***************************************************************************)
ClassNames == {"E1", "E2"}

ValueNames == {"A", "B"}

\* Reader.read_s32 of four bytes: the signed little-endian value.
Unpack_i32(b) ==
    b[1] + 256 * b[2] + 65536 * b[3]
      + 16777216 * (IF b[4] >= 128 THEN b[4] - 256 ELSE b[4])

\* Reader.read_u32 at file offset off (the model keeps the top byte below 128).
read_u32(s, off) ==
    s[off + 1] + 256 * s[off + 2] + 65536 * s[off + 3] + 16777216 * s[off + 4]

\* Enum databases installed by AINB.set_enum_db: a mapping from classnames
\* to mappings from value names to integers.  The values cover a negative
\* number and one that spans two bytes.
EmptyDb == [c \in {} |-> 0]

\* A Python int has no width: the int n is held as the pair (hi, lo) with
\* n = hi * 2^16 + lo and 0 <= lo < 2^16, and hi is not bounded.
PyInt(n) == [hi |-> n \div 65536, lo |-> n % 65536]

\* The int 2^31, the least one above the signed 32-bit range.
PyInt_2_31 == [hi |-> 32768, lo |-> 0]

\* -2^31 <= n < 2^31
FitsInt32(v) == v.hi >= -32768 /\ v.hi <= 32767

\* The number a Python int inside the signed 32-bit range stands for.
IntOf(v) == v.hi * 65536 + v.lo

GameDb == [c \in {"E1", "E2"} |->
              IF c = "E1" THEN [v \in {"A", "B"} |-> IF v = "A" THEN PyInt(-2) ELSE PyInt(258)]
                          ELSE [v \in {"A"} |-> PyInt(1)]]

EnumDbs == {EmptyDb, GameDb}

\* EnumEntry(patch_offset, classname, value_name)
EnumEntry == [patch_offset : 0..(BufLen + 1), classname : ClassNames, value_name : ValueNames]

PatchListsOf(entries) == UNION {[1..n -> entries] : n \in 0..MaxPatches}

\* struct.pack("<i", value): the little-endian two's complement bytes.
Pack_i32(value) ==
    << value % 256, (value \div 256) % 256,
       (value \div 65536) % 256, (value \div 16777216) % 256 >>

\* io.BytesIO.write(data) with the cursor at pos: overwrites in place and
\* grows the buffer when the data reach past its end.
StreamWrite(s, pos, data) ==
    [i \in 1..Max(Len(s), pos + Len(data)) |->
        IF i > pos /\ i <= pos + Len(data) THEN data[i - pos]
        ELSE IF i <= Len(s) THEN s[i] ELSE 0]

\* Reader.get_size(): the size of the underlying stream.
get_size(s) == Len(s)

\* The result None of a lookup (a found value v is [is_none |-> FALSE, value |-> v]).
NotFound == [is_none |-> TRUE, value |-> PyInt(0)]

\* struct.pack("<i", value): the four bytes, or struct.error for an int
\* outside the signed 32-bit range.
struct_pack_i(value) ==
    IF FitsInt32(value) THEN [ok |-> TRUE, val |-> Pack_i32(IntOf(value))]
    ELSE [ok |-> FALSE, val |-> <<>>]

\* cls._ENUM_DB.get(classname, {}).get(value_name, None)
search_enum_db(db, classname, value_name) ==
    IF classname \notin DOMAIN db THEN NotFound
    ELSE IF value_name \notin DOMAIN db[classname] THEN NotFound
    ELSE [is_none |-> FALSE, value |-> db[classname][value_name]]

\* The write of the packed value at patch_offset; struct.pack raises before
\* the stream is touched.
WritePatch(entry, s, packed) ==
    IF packed.ok
    THEN [stream |-> StreamWrite(s, entry.patch_offset, packed.val),
          warned |-> FALSE, raised |-> FALSE]
    ELSE [stream |-> s, warned |-> FALSE, raised |-> TRUE]

\* AINB._process_enum_resolve: the stream after the patch, whether a
\* warning was emitted and whether the call raised.
process_enum_resolve_NoBoundsCheck(db, entry, s) ==
    LET value == search_enum_db(db, entry.classname, entry.value_name)
    IN  IF value.is_none
        THEN [stream |-> s, warned |-> TRUE, raised |-> FALSE]
        ELSE WritePatch(entry, s, struct_pack_i(value.value))

process_enum_resolve(db, entry, s) ==
    IF entry.patch_offset >= get_size(s)
    THEN [stream |-> s, warned |-> TRUE, raised |-> FALSE]
    ELSE LET value == search_enum_db(db, entry.classname, entry.value_name)
         IN  IF value.is_none
             THEN [stream |-> s, warned |-> TRUE, raised |-> FALSE]
             ELSE WritePatch(entry, s, struct_pack_i(value.value))

(***************************************************************************)
(* State.                                                                  *)
(***************************************************************************)
VARIABLES
    stream,            \* reader._stream: the bytes of the input buffer
    ENUM_DB,           \* AINB._ENUM_DB
    enums_to_resolve,  \* the enum-resolve table read from the file
    enum_i,            \* number of entries of the table already processed
    warnings,          \* number of ParseWarning emitted
    n_writes,          \* number of reader._stream.write calls made
    pass,              \* which application of the patch list is running
    after_first,       \* the stream after the first application of the list
    file,              \* the input: what the sections of the file hold
    writable,          \* reader.writable()
    pc,                \* the phase AINB.read is about to run
    string_pool,       \* the bytes handed to reader.init_string_pool
    self,              \* the AINB object under construction
    queries,           \* the local list queries of AINB.read
    transitions,       \* the local list transitions of AINB.read
    result,            \* "running", "returned" or "raised"
    raised_in,         \* the phase whose code raised, or "none"
    done,              \* the phases completed so far, in order
    trip,              \* the round trip made with the object returned, or "none"
    new,               \* the outcome of that round trip
    cursor,            \* reader.tell() in the header and in the node section
    log,               \* the ParseWarning emitted by the sections read, in order
    exb_cursor,        \* tell() of the reader of the expression section
    node_calls,        \* for every call of Node._read: where it started and ended
    input,             \* the dictionary handed to AINB.from_dict
    cli,               \* the command line: its arguments, position and exit status
    attachments,       \* the local list attachments of AINB.read
    attachment_indices,\* the local list attachment_indices of AINB.read
    properties,        \* the local PropertySet properties of AINB.read
    modified,          \* the node through which the caller last changed the object, or -1
    db_log,            \* the calls of AINB.set_enum_db made: the argument and the outcome
    offsets,           \* the local list offsets of AINB._read_transitions
    graph              \* the Graph under construction and the calls of add_node in progress

enumVars == <<stream, ENUM_DB, enums_to_resolve, enum_i, warnings, n_writes>>

passVars == <<pass, after_first>>

readVars ==
    <<file, writable, pc, string_pool, self, queries, transitions, result, raised_in, done>>

tripVars == <<trip, new>>

posVars == <<cursor, log, exb_cursor, node_calls>>

sideVars == <<input, cli, modified>>

dbVars == <<db_log, offsets, graph>>

tableVars == <<attachments, attachment_indices, properties>>

vars == <<enumVars, passVars, readVars, tripVars, posVars, sideVars, dbVars, tableVars>>

(***************************************************************************)
(* SpecEnum: the patch list of a file applied to a buffer, then applied    *)
(* again to the result.                                                    *)
(***************************************************************************)
NoFile == [magic |-> "none"]

\* AINB.__init__; a blackboard without parameters stands for None as well,
\* the dictionary view of both is the empty dictionary.
NoSelf ==
    [version |-> 0, filename |-> <<>>, category |-> <<>>, modules |-> <<>>,
     blackboard_id |-> 0, blackboard |-> [t \in 0..5 |-> <<>>],
     replacement_table |-> <<>>, nodes |-> <<>>, expressions |-> <<>>]

\* No Graph has been made.
NoGraph ==
    [nodes |-> <<>>, inserted |-> <<>>, generic_edges |-> {}, transition_edges |-> {},
     root_index |-> -1, stack |-> <<>>, status |-> "none"]

\* No round trip has been made.
NoNew == [ok |-> FALSE, val |-> <<>>]

\* No dictionary is being loaded.
NoData == [k \in {} |-> 0]

\* The command line is not in use.
NoCli == [at |-> "none"]

ReadIdle ==
    /\ file = NoFile
    /\ writable = TRUE
    /\ pc = "enum_apply"
    /\ string_pool = <<>>
    /\ self = NoSelf
    /\ queries = <<>>
    /\ transitions = <<>>
    /\ result = "running"
    /\ raised_in = "none"
    /\ done = <<>>
    /\ trip = "none"
    /\ new = NoNew
    /\ cursor = 0
    /\ log = <<>>
    /\ exb_cursor = 0
    /\ node_calls = <<>>
    /\ input = NoData
    /\ cli = NoCli
    /\ attachments = <<>>
    /\ attachment_indices = <<>>
    /\ properties = [t \in 0..5 |-> <<>>]
    /\ modified = -1
    /\ db_log = <<>>
    /\ offsets = <<>>
    /\ graph = NoGraph

InitEnum ==
    /\ stream = [i \in 1..BufLen |-> 170]
    /\ ENUM_DB \in EnumDbs
    /\ enums_to_resolve \in PatchListsOf(EnumEntry)
    /\ enum_i = 0
    /\ pass = 1
    /\ warnings = 0
    /\ n_writes = 0
    /\ after_first = <<>>
    /\ ReadIdle

\* for entry in enums_to_resolve: self._process_enum_resolve(entry, reader)
ApplyPatch ==
    /\ pc = "enum_apply"
    /\ enum_i < Len(enums_to_resolve)
    /\ LET r == process_enum_resolve(ENUM_DB, enums_to_resolve[enum_i + 1], stream)
       IN  /\ stream' = r.stream
           /\ warnings' = warnings + (IF r.warned THEN 1 ELSE 0)
           /\ n_writes' = n_writes + (IF r.warned \/ r.raised THEN 0 ELSE 1)
           /\ IF r.raised
              THEN /\ pc' = "done"
                   /\ result' = "raised"
                   /\ raised_in' = "enum_apply"
                   /\ enum_i' = enum_i
              ELSE /\ enum_i' = enum_i + 1
                   /\ UNCHANGED <<pc, result, raised_in>>
    /\ UNCHANGED <<ENUM_DB, enums_to_resolve, passVars, tripVars, posVars, sideVars, dbVars, tableVars,
                   file, writable, string_pool, self, queries, transitions, done>>

\* The whole list has been applied once: apply it again to the result.
SecondPass ==
    /\ file = NoFile
    /\ pass = 1
    /\ enum_i = Len(enums_to_resolve)
    /\ after_first' = stream
    /\ pass' = 2
    /\ enum_i' = 0
    /\ UNCHANGED <<stream, ENUM_DB, enums_to_resolve, warnings, n_writes, readVars, tripVars, posVars, sideVars, dbVars, tableVars>>

NextEnum == ApplyPatch \/ SecondPass

SpecEnum == InitEnum /\ [][NextEnum]_vars

\* The entry the next ApplyPatch step processes.
CurEntry == enums_to_resolve[enum_i + 1]

C4_Idempotent ==
    (pass = 2 /\ enum_i = Len(enums_to_resolve)) => stream = after_first

(***************************************************************************)
(* Strings: the pool is a copy of the bytes from string_pool_offset to the *)
(* end of the buffer; a string is the bytes from its offset up to the next *)
(* zero byte.                                                              *)
(***************************************************************************)
RECURSIVE ScanString(_, _)
ScanString(pool, i) ==
    IF i > Len(pool) \/ pool[i] = 0 THEN <<>>
    ELSE <<pool[i]>> \o ScanString(pool, i + 1)

\* ReaderWithStrPool.get_string(offset)
get_string(pool, offset) == ScanString(pool, offset + 1)

\* The offset names a byte of the pool.
InPool(pool, offset) == offset >= 0 /\ offset < Len(pool)

\* The UTF-8 bytes of the default-case string of F32 and String selectors,
\* U+305D U+306E U+4ED6.
DEFAULT_CASE == <<227, 129, 157, 227, 129, 174, 228, 187, 150>>

(***************************************************************************)
(* Plugs and nodes (node.py).  A child plug of the file is the words that  *)
(* follow each other at its offset: node_index, name, then (a_index,       *)
(* a_flag, a_val) and (b_index, b_flag, b_val), each a 16-bit index, a     *)
(* 16-bit flag word and a 32-bit word.  How many of them a plug reads      *)
(* depends on its class and on whether it is the last of its slot.         *)
(***************************************************************************)
UserDefined == 0

Element_S32Selector == 1

Element_F32Selector == 4

Element_StringSelector == 5

NodeTypes == {UserDefined, Element_S32Selector, Element_F32Selector, Element_StringSelector}

SelectorTypes == {Element_S32Selector, Element_F32Selector, Element_StringSelector}

\* The outcome of a read: a value, or an exception.
Ok(v) == [ok |-> TRUE, val |-> v]

Raised == [ok |-> FALSE, val |-> <<>>]

\* A list comprehension over calls with the outcomes rs: the list of the
\* values, or the exception of the first call that raises.
from_list(rs) ==
    IF \E k \in 1..Len(rs) : ~rs[k].ok THEN Raised
    ELSE Ok([k \in 1..Len(rs) |-> rs[k].val])

\* flag >> 0xf != 0
HighBit(flag) == flag \div 32768 # 0

\* The 32-bit word that the 16-bit index and the 16-bit flag word form when
\* read as one string offset; with the high bit of the flag word set it is
\* at least 2^31 and names no byte of a pool.
WordOf(index, flag) == IF HighBit(flag) THEN -1 ELSE index + 65536 * flag

\* reader.read_string_offset(): the string, or an exception outside the pool.
read_string_offset(pool, offset) ==
    IF InPool(pool, offset) THEN Ok(get_string(pool, offset)) ELSE Raised

ChildPlug_read(raw, pool) ==
    LET name == read_string_offset(pool, raw.name)
    IN  IF ~name.ok THEN Raised
        ELSE Ok([class |-> "ChildPlug", node_index |-> raw.node_index, name |-> name.val])

S32SelectorPlug_read_NoDefault(raw, is_last, pool) ==
    LET name == read_string_offset(pool, raw.name)
        bb == IF HighBit(raw.a_flag) THEN raw.a_index ELSE -1
    IN  IF ~name.ok THEN Raised
        ELSE Ok([class |-> "S32SelectorPlug", node_index |-> raw.node_index,
                 name |-> name.val, condition |-> raw.a_val,
                 is_default |-> FALSE, blackboard_index |-> bb])

S32SelectorPlug_read_NoCheck(raw, is_last, pool) ==
    LET name == read_string_offset(pool, raw.name)
        bb == IF HighBit(raw.a_flag) THEN raw.a_index ELSE -1
    IN  IF ~name.ok THEN Raised
        ELSE Ok([class |-> "S32SelectorPlug", node_index |-> raw.node_index,
                 name |-> name.val, condition |-> IF is_last THEN 0 ELSE raw.a_val,
                 is_default |-> is_last, blackboard_index |-> bb])

S32SelectorPlug_read(raw, is_last, pool) ==
    LET name == read_string_offset(pool, raw.name)
        bb == IF HighBit(raw.a_flag) THEN raw.a_index ELSE -1
    IN  IF ~name.ok THEN Raised
        ELSE IF is_last
        THEN IF raw.a_val # 0 THEN Raised
             ELSE Ok([class |-> "S32SelectorPlug", node_index |-> raw.node_index,
                      name |-> name.val, condition |-> 0,
                      is_default |-> TRUE, blackboard_index |-> bb])
        ELSE Ok([class |-> "S32SelectorPlug", node_index |-> raw.node_index,
                 name |-> name.val, condition |-> raw.a_val,
                 is_default |-> FALSE, blackboard_index |-> bb])

F32SelectorPlug_read(raw, is_last, pool) ==
    LET name == read_string_offset(pool, raw.name)
        string == read_string_offset(pool, WordOf(raw.a_index, raw.a_flag))
    IN  IF ~name.ok THEN Raised
        ELSE IF is_last
        THEN IF ~string.ok \/ string.val # DEFAULT_CASE THEN Raised
             ELSE Ok([class |-> "F32SelectorPlug", node_index |-> raw.node_index,
                      name |-> name.val, condition_min |-> 0, blackboard_index_min |-> -1,
                      condition_max |-> 0, blackboard_index_max |-> -1,
                      is_default |-> TRUE])
        ELSE Ok([class |-> "F32SelectorPlug", node_index |-> raw.node_index,
                 name |-> name.val,
                 condition_min |-> IF HighBit(raw.a_flag) THEN 0 ELSE raw.a_val,
                 blackboard_index_min |-> IF HighBit(raw.a_flag) THEN raw.a_index ELSE -1,
                 condition_max |-> IF HighBit(raw.b_flag) THEN 0 ELSE raw.b_val,
                 blackboard_index_max |-> IF HighBit(raw.b_flag) THEN raw.b_index ELSE -1,
                 is_default |-> FALSE])

StringSelectorPlug_read(raw, is_last, pool) ==
    LET name == read_string_offset(pool, raw.name)
        bb == IF HighBit(raw.a_flag) THEN raw.a_index ELSE -1
        string == read_string_offset(pool, raw.a_val)
    IN  IF ~name.ok \/ ~string.ok THEN Raised
        ELSE IF is_last
        THEN IF string.val # DEFAULT_CASE THEN Raised
             ELSE Ok([class |-> "StringSelectorPlug", node_index |-> raw.node_index,
                      name |-> name.val, condition |-> <<>>,
                      is_default |-> TRUE, blackboard_index |-> bb])
        ELSE Ok([class |-> "StringSelectorPlug", node_index |-> raw.node_index,
                 name |-> name.val, condition |-> string.val,
                 is_default |-> FALSE, blackboard_index |-> bb])

\* PlugType: the slots of a node.  Slots 1 and 6 to 9 are reserved.
PlugType_Generic == 0

PlugType_Child == 2

PlugType_Transition == 3

ReservedPlugTypes == {1, 6, 7, 8, 9}

\* PlugType(t).name
PlugType_name(t) ==
    CASE t = 0 -> "Generic" [] t = 1 -> "_01" [] t = 2 -> "Child"
      [] t = 3 -> "Transition" [] t = 4 -> "String" [] t = 5 -> "Int"
      [] t = 6 -> "_06" [] t = 7 -> "_07" [] t = 8 -> "_08" [] t = 9 -> "_09"

\* GenericPlug._read
GenericPlug_read(raw, pool) ==
    LET name == read_string_offset(pool, raw.name)
    IN  IF ~name.ok THEN Raised
        ELSE Ok([class |-> "GenericPlug", node_index |-> raw.node_index, name |-> name.val])

\* Node._read_plug for the Child slot.
read_plug(type, raw, is_last, pool) ==
    IF type = Element_S32Selector THEN S32SelectorPlug_read(raw, is_last, pool)
    ELSE IF type = Element_F32Selector THEN F32SelectorPlug_read(raw, is_last, pool)
    ELSE IF type = Element_StringSelector THEN StringSelectorPlug_read(raw, is_last, pool)
    ELSE ChildPlug_read(raw, pool)

\* Transition(): the entry a plug holds before one is assigned.
NoTransition == [transition_type |-> 0, update_post_calc |-> FALSE, command_name |-> <<>>]

\* TransitionPlug._read: the plug carries the entry of the transition table
\* at the index it stores; an index past the end of the table raises.
TransitionPlug_read_NoCheck(raw, info_list) ==
    Ok([class |-> "TransitionPlug", node_index |-> raw.node_index,
        transition |-> IF raw.index < Len(info_list)
                       THEN info_list[raw.index + 1] ELSE NoTransition])

TransitionPlug_read(raw, info_list) ==
    IF raw.index >= Len(info_list) THEN Raised
    ELSE Ok([class |-> "TransitionPlug", node_index |-> raw.node_index,
             transition |-> info_list[raw.index + 1]])

\* Node._read_plug for a reserved slot: the else branch of the dispatch.
read_reserved_plug_Generic(plug_type, raw, pool) == GenericPlug_read(raw, pool)

read_reserved_plug(plug_type, raw, pool) == Raised

\* NodeFlag.is_query
is_query(flags) == flags % 2 # 0

\* NodeFlag.is_module
is_module(flags) == (flags \div 2) % 2 # 0

\* ParseWarning(reader, message): the warning is recorded and control goes
\* on.  A warning of Node._read carries the position of the node.
ParseWarning(message, node) == [warning |-> message, node |-> node]

\* ".ainb"
DotAinb == <<46, 97, 105, 110, 98>>

\* The warnings Node._read emits for the node at position index, up to its
\* return or to the statement that raises: none when the node type is no
\* member of NodeType, the index warning alone when the name cannot be
\* resolved.
Node_read_warnings_Silent(rn, index, version, pool, modules) == <<>>

Node_read_warnings(rn, index, version, pool, modules) ==
    IF rn.type \notin NodeTypes THEN <<>>
    ELSE (IF rn.index # index
          THEN <<ParseWarning("inconsistent node index", index)>> ELSE <<>>)
      \o (IF ~InPool(pool, rn.name) THEN <<>>
          ELSE (IF is_module(rn.flags)
                    /\ ~\E k \in 1..Len(modules) :
                           modules[k] = get_string(pool, rn.name) \o DotAinb
                THEN <<ParseWarning("missing module", index)>> ELSE <<>>)
            \o (IF version >= 1031 /\ rn.state_info_offset # 0
                THEN <<ParseWarning("state info unsupported", index)>> ELSE <<>>))

(***************************************************************************)
(* Properties and attachments (property.py, attachment.py).  A property of *)
(* the file is the offset of its name and the word of its default value;   *)
(* an attachment is the offset of its name and, for each parameter type,   *)
(* the base index and the count of its properties.  An object built from   *)
(* the file carries in id its position in the file-level table: two        *)
(* entries with the same type and id are one object.                       *)
(***************************************************************************)
\* ParamType: Int, Bool, Float, String, Vector3F, Pointer.
ParamTypes == 0..5

ParamType_String == 3

ParamType_Pointer == 5

\* ParamType(t).name
ParamType_name(t) ==
    CASE t = 0 -> "Int" [] t = 1 -> "Bool" [] t = 2 -> "Float" [] t = 3 -> "String"
      [] t = 4 -> "Vector3F" [] t = 5 -> "Pointer"

\* PropertySet.__init__
EmptyPropertySet == [t \in ParamTypes |-> <<>>]

\* The (base_index, count) pairs of a record that has no properties.
NoSlices == [t \in ParamTypes |-> [base_index |-> 0, count |-> 0]]

\* list[base_index:base_index+count]: the entries that exist in that range.
ListSlice(list, base_index, count) == Ok(Slice(list, base_index, base_index + count))

\* Property._read
Property_read(raw, param_type, id, pool) ==
    LET name == read_string_offset(pool, raw.name)
        value == IF param_type = ParamType_String THEN read_string_offset(pool, raw.value)
                 ELSE IF param_type = 1 THEN Ok(raw.value # 0)
                 ELSE IF param_type = ParamType_Pointer THEN Ok("None")
                 ELSE Ok(raw.value)
    IN  IF ~name.ok \/ ~value.ok THEN Raised
        ELSE Ok([id |-> id, type |-> param_type, name |-> name.val,
                 default_value |-> value.val])

\* PropertySet._read
PropertySet_read(raw, pool) ==
    LET lists == [t \in ParamTypes |->
                     from_list([k \in 1..Len(raw[t]) |->
                                   Property_read(raw[t][k], t, k - 1, pool)])]
    IN  IF \E t \in ParamTypes : ~lists[t].ok THEN Raised
        ELSE Ok([t \in ParamTypes |-> lists[t].val])

\* The slices of the file-level lists of properties a record names.
PropertySlices(props, slices) ==
    LET lists == [t \in ParamTypes |->
                     ListSlice(props[t], slices[t].base_index, slices[t].count)]
    IN  IF \E t \in ParamTypes : ~lists[t].ok THEN Raised
        ELSE Ok([t \in ParamTypes |-> lists[t].val])

\* Attachment._read
Attachment_read(raw, id, pool, props) ==
    LET name == read_string_offset(pool, raw.name)
        own == PropertySlices(props, raw.props)
    IN  IF ~name.ok \/ ~own.ok THEN Raised
        ELSE Ok([id |-> id, name |-> name.val, properties |-> own.val])

\* [attachments[i] for i in
\*     attachment_indices[base_attachment_index:base_attachment_index+attachment_count]]
Node_attachments(rn, atts, indices) ==
    LET idx == ListSlice(indices, rn.base_attachment_index, rn.attachment_count)
    IN  IF ~idx.ok THEN Raised
        ELSE IF \E k \in 1..Len(idx.val) : idx.val[k] >= Len(atts) THEN Raised
        ELSE Ok([k \in 1..Len(idx.val) |-> atts[idx.val[k] + 1]])

\* read_u32 of the magic "AIB ", the first word of the header.
MagicWord == 541214017

\* The record at state_info_offset: the one the file holds there; at offset
\* 0 the bytes are the header of the file, its first word the magic, its
\* second the version.
StateRecord(rn, version) ==
    IF rn.state_info_offset = 0
    THEN [desired_state |-> MagicWord, unk04 |-> version]
    ELSE rn.state_info

\* Node._read: the node at position i of the node section, built from the
\* lists AINB.read hands to it.  In a file of a version below 0x407 the
\* state info is read for every node, whatever its offset; its string is
\* resolved through the pool.
Node_read(rn, version, pool, qs, trans) ==
    LET n == Len(rn.child)
        plugs == [k \in 1..n |-> read_plug(rn.type, rn.child[k], (k - 1) = n - 1, pool)]
        state == read_string_offset(pool, StateRecord(rn, version).desired_state)
        name == read_string_offset(pool, rn.name)
        generic == [k \in 1..Len(rn.generic) |-> GenericPlug_read(rn.generic[k], pool)]
        transition == [k \in 1..Len(rn.transition) |->
                          TransitionPlug_read(rn.transition[k], trans)]
        reserved == [t \in ReservedPlugTypes |->
                        [k \in 1..Len(rn.reserved[t]) |->
                            read_reserved_plug(t, rn.reserved[t][k], pool)]]
        own_queries == ListSlice(qs, rn.base_query_index, rn.query_count)
        atts == Node_attachments(rn, attachments, attachment_indices)
        props == PropertySlices(properties, rn.props)
    IN  IF rn.type \notin NodeTypes THEN Raised
        ELSE IF ~name.ok THEN Raised
        ELSE IF version < 1031 /\ ~state.ok THEN Raised
        ELSE IF ~own_queries.ok \/ ~atts.ok \/ ~props.ok THEN Raised
        ELSE IF \E k \in 1..n : ~plugs[k].ok THEN Raised
        ELSE IF \E k \in 1..Len(generic) : ~generic[k].ok THEN Raised
        ELSE IF \E k \in 1..Len(transition) : ~transition[k].ok THEN Raised
        ELSE IF \E t \in ReservedPlugTypes :
                    \E k \in 1..Len(reserved[t]) : ~reserved[t][k].ok THEN Raised
        ELSE Ok([type |-> rn.type, index |-> rn.index, flags |-> rn.flags,
                 name |-> name.val,
                 queries |-> own_queries.val,
                 attachments |-> atts.val, properties |-> props.val,
                 state_info |-> IF version < 1031
                                THEN <<[desired_state |-> state.val,
                                        unk04 |-> StateRecord(rn, version).unk04]>>
                                ELSE <<>>,
                 child_plugs |-> [k \in 1..n |-> plugs[k].val],
                 generic_plugs |-> [k \in 1..Len(generic) |-> generic[k].val],
                 transition_plugs |-> [k \in 1..Len(transition) |-> transition[k].val],
                 reserved_plugs |-> [t \in ReservedPlugTypes |->
                                       [k \in 1..Len(reserved[t]) |-> reserved[t][k].val]]])

\* query_indices = [i for i, node in enumerate(self.nodes) if node.flags.is_query()]
RECURSIVE QueryIndicesFrom(_, _)
QueryIndicesFrom(nodes, i) ==
    IF i > Len(nodes) THEN <<>>
    ELSE (IF is_query(nodes[i].flags) THEN <<i - 1>> ELSE <<>>)
           \o QueryIndicesFrom(nodes, i + 1)

query_indices(nodes) == QueryIndicesFrom(nodes, 1)

\* AINB._fix_query_indices
fix_query_indices_Identity(node, qi) == Ok(node)

fix_query_indices_Lenient(node, qi) ==
    Ok([node EXCEPT !.queries = [k \in 1..Len(node.queries) |->
                                    IF node.queries[k] >= Len(qi) THEN node.queries[k]
                                    ELSE qi[node.queries[k] + 1]]])

fix_query_indices(node, qi) ==
    IF \E k \in 1..Len(node.queries) : node.queries[k] >= Len(qi) THEN Raised
    ELSE Ok([node EXCEPT !.queries = [k \in 1..Len(node.queries) |-> qi[node.queries[k] + 1]]])

\* reader.get_string(offset): the string of the pool at the offset, or an
\* exception for an offset outside the pool.
reader_get_string(pool, offset) ==
    IF InPool(pool, offset) THEN Ok(get_string(pool, offset)) ELSE Raised

(***************************************************************************)
(* The blackboard (blackboard.py).  The section of a file is its parameter *)
(* descriptors by type and its file references.  A descriptor is the two   *)
(* 16-bit halves lo and hi of its 32-bit flags word, the offset of its     *)
(* notes and the word of its default value; a file reference is the offset *)
(* of its filename.                                                        *)
(***************************************************************************)
\* BBParamType
BBParamTypes == 0..5

BBParamType_String == 0

BBParamType_Bool == 3

BBParamType_VoidPtr == 5

\* BBParamType(t).name
BBParamType_name(t) ==
    CASE t = 0 -> "String" [] t = 1 -> "S32" [] t = 2 -> "F32" [] t = 3 -> "Bool"
      [] t = 4 -> "Vec3f" [] t = 5 -> "VoidPtr"

\* The default value of a pointer parameter: None.
NoValue == "None"

\* Blackboard.__init__: six empty lists.
EmptyBlackboard == [t \in BBParamTypes |-> <<>>]

\* flags & 0x3fffff: the 16 bits of the lower half and the low 6 bits of the
\* upper half.
bb_param_name_offset_LowHalf(raw) == raw.lo

bb_param_name_offset(raw) == raw.lo + 65536 * (raw.hi % 64)

\* Blackboard._read_bb_param: flags >> 0x1f tells whether the parameter has
\* a file reference, flags >> 0x18 & 0x7f is its index, flags >> 0x16 & 3 are
\* the flag bits.
read_bb_param(raw, pool) ==
    LET name == reader_get_string(pool, bb_param_name_offset(raw))
        notes == read_string_offset(pool, raw.notes)
    IN  IF ~name.ok \/ ~notes.ok THEN Raised
        ELSE Ok([file_ref_index |-> IF HighBit(raw.hi) THEN (raw.hi \div 256) % 128 ELSE -1,
                 name |-> name.val, notes |-> notes.val,
                 flags |-> (raw.hi \div 64) % 4])

\* Blackboard._read_bb_param_value
read_bb_param_value(raw, param_type, pool) ==
    IF param_type = BBParamType_String THEN read_string_offset(pool, raw.value)
    ELSE IF param_type = BBParamType_Bool THEN Ok(raw.value # 0)
    ELSE IF param_type = BBParamType_VoidPtr THEN Ok(NoValue)
    ELSE Ok(raw.value)

\* Blackboard._read_file_reference, at the record of the index.  The files
\* of the model hold a record for every index their descriptors name.
read_file_reference(refs, index, pool) ==
    IF index >= Len(refs) THEN Raised ELSE read_string_offset(pool, refs[index + 1])

\* Blackboard._create_bb_param
create_bb_param(raw, info, param_type, refs, pool) ==
    LET value == read_bb_param_value(raw, param_type, pool)
        ref == IF info.file_ref_index # -1
               THEN read_file_reference(refs, info.file_ref_index, pool)
               ELSE Ok(<<>>)
    IN  IF ~value.ok \/ ~ref.ok THEN Raised
        ELSE Ok([name |-> info.name, type |-> param_type, notes |-> info.notes,
                 file_ref |-> ref.val, flags |-> info.flags, default_value |-> value.val])

\* Blackboard._read: the descriptors of every type, then the parameters of
\* every type with their default values and file references.
Blackboard_read(raw, pool) ==
    LET info == [t \in BBParamTypes |->
                    [k \in 1..Len(raw.params[t]) |-> read_bb_param(raw.params[t][k], pool)]]
        params == [t \in BBParamTypes |->
                      [k \in 1..Len(raw.params[t]) |->
                          create_bb_param(raw.params[t][k], info[t][k].val, t,
                                          raw.file_refs, pool)]]
    IN  IF \E t \in BBParamTypes : \E k \in 1..Len(raw.params[t]) : ~info[t][k].ok
        THEN Raised
        ELSE IF \E t \in BBParamTypes : \E k \in 1..Len(raw.params[t]) : ~params[t][k].ok
        THEN Raised
        ELSE Ok([t \in BBParamTypes |->
                    [k \in 1..Len(raw.params[t]) |-> params[t][k].val]])

(***************************************************************************)
(* AINB.read (ainb.py): one action per phase, in the order of the code.    *)
(* A phase whose reads fail (a read past the end of the buffer, a value    *)
(* that is no member of its enum, bytes that are no UTF-8) raises; the     *)
(* input names that phase in file.corrupt.                                 *)
(***************************************************************************)
SUPPORTED_VERSIONS == {1028, 1031}

PhaseOrder_NodesEarly ==
    << "header", "string_pool", "filename", "offsets", "category", "commands",
       "enum_table", "enum_check",
       "enum_apply", "blackboard", "expressions", "properties", "nodes", "attachments",
       "attachment_indices", "io_params", "multi_sources", "transitions", "queries",
       "actions", "modules", "blackboard_ids", "replacements",
       "fix_queries", "trailer", "done" >>

PhaseOrder ==
    << "header", "string_pool", "filename", "offsets", "category", "commands",
       "enum_table", "enum_check",
       "enum_apply", "blackboard", "expressions", "properties", "attachments",
       "attachment_indices", "multi_sources", "io_params", "transitions", "queries",
       "actions", "modules", "blackboard_ids", "replacements", "nodes",
       "fix_queries", "trailer", "done" >>

PhaseIndex(p) == CHOOSE i \in 1..Len(PhaseOrder) : PhaseOrder[i] = p

NextPhase(p) == PhaseOrder[PhaseIndex(p) + 1]

\* Sections the model does not look into: they are read, or their read fails.
OpaquePhases ==
    { "offsets", "commands", "multi_sources", "io_params", "actions" }

\* The phase completes and control moves to the next statement.
Advance(p) ==
    /\ pc' = NextPhase(p)
    /\ done' = Append(done, p)
    /\ UNCHANGED <<result, raised_in>>

\* The phase raises: nothing in AINB.read catches, the call ends.
Raise(p) ==
    /\ pc' = "done"
    /\ result' = "raised"
    /\ raised_in' = p
    /\ UNCHANGED done

\* The phase raises, the exception is swallowed and control goes on: what a
\* read that caught the exceptions of its sections would do.
Swallow(p) ==
    /\ pc' = NextPhase(p)
    /\ raised_in' = p
    /\ done' = Append(done, p)
    /\ UNCHANGED result

Running(p) == pc = p /\ result = "running" /\ file # NoFile

\* magic and version (lines 97-107)
ReadHeader_ReadOn ==
    /\ Running("header")
    /\ self' = [self EXCEPT !.version = file.version]
    /\ IF file.magic # "AIB " \/ file.version \notin SUPPORTED_VERSIONS
       THEN Raise("header") ELSE Advance("header")
    /\ cursor' = cursor + 4 + 4 + 32
    /\ UNCHANGED <<enumVars, passVars, tripVars, log, exb_cursor, node_calls, sideVars, dbVars, tableVars, file, writable,
                   string_pool, queries, transitions>>

ReadHeader ==
    /\ Running("header")
    /\ IF file.magic # "AIB "
       THEN Raise("header") /\ cursor' = cursor + 4 /\ UNCHANGED self
       ELSE /\ self' = [self EXCEPT !.version = file.version]
            /\ IF file.version \notin SUPPORTED_VERSIONS
               THEN Raise("header") /\ cursor' = cursor + 4 + 4
               ELSE Advance("header") /\ cursor' = cursor + 4 + 4 + 32
    /\ UNCHANGED <<enumVars, passVars, tripVars, log, exb_cursor, node_calls, sideVars, dbVars, tableVars, file, writable,
                   string_pool, queries, transitions>>

\* with reader.temp_seek(string_pool_offset): reader.init_string_pool(reader.read())
InitStringPool ==
    /\ Running("string_pool")
    /\ IF file.corrupt = "string_pool"
       THEN Raise("string_pool") /\ UNCHANGED string_pool
       ELSE /\ string_pool' = Slice(stream, file.string_pool_offset, Len(stream))
            /\ Advance("string_pool")
    /\ UNCHANGED <<enumVars, passVars, tripVars, posVars, sideVars, dbVars, tableVars, file, writable, self, queries, transitions>>

\* self.filename = reader.get_string(filename_offset) (line 112)
ReadFilename ==
    /\ Running("filename")
    /\ LET name == reader_get_string(string_pool, file.filename_offset)
       IN  IF ~name.ok
           THEN Raise("filename") /\ UNCHANGED self
           ELSE self' = [self EXCEPT !.filename = name.val] /\ Advance("filename")
    /\ UNCHANGED <<enumVars, passVars, tripVars, posVars, sideVars, dbVars, tableVars, file, writable, string_pool,
                   queries, transitions>>

\* FileCategory
FileCategories == 0..4

\* FileCategory(category).name
FileCategory_name(category) ==
    CASE category = 0 -> <<65, 73>>
      [] category = 1 -> <<76, 111, 103, 105, 99>>
      [] category = 2 -> <<83, 101, 113, 117, 101, 110, 99, 101>>
      [] category = 3 -> <<85, 110, 105, 113, 117, 101, 83, 101, 113, 117, 101, 110, 99, 101>>
      [] category = 4 -> <<85, 110, 105, 113, 117, 101, 83, 101, 113, 117, 101, 110, 99, 101,
                           83, 80, 76>>

\* The check of the category word against the category string (lines
\* 121-126): the warnings it emits, or the ValueError of FileCategory(category)
\* for a word that is no member of the enum.
check_category(version, name, category) ==
    IF version > 1028
    THEN IF category \notin FileCategories THEN Raised
         ELSE IF name # FileCategory_name(category)
         THEN Ok(<<ParseWarning("category mismatch", -1)>>) ELSE Ok(<<>>)
    ELSE IF category # 0
         THEN Ok(<<ParseWarning("unused category field", -1)>>) ELSE Ok(<<>>)

\* self.category = reader.get_string(category_name_offset) and the check of
\* the category word (lines 120-126)
ReadCategory ==
    /\ Running("category")
    /\ LET name == reader_get_string(string_pool, file.category_name_offset)
           check == check_category(self.version, name.val, file.category)
       IN  IF ~name.ok
           THEN Raise("category") /\ UNCHANGED <<self, log, warnings>>
           ELSE /\ self' = [self EXCEPT !.category = name.val]
                /\ IF ~check.ok
                   THEN Raise("category") /\ UNCHANGED <<log, warnings>>
                   ELSE /\ log' = log \o check.val
                        /\ warnings' = warnings + Len(check.val)
                        /\ Advance("category")
    /\ UNCHANGED <<stream, ENUM_DB, enums_to_resolve, enum_i, n_writes, passVars, tripVars,
                   cursor, exb_cursor, node_calls, sideVars, dbVars, tableVars, file, writable, string_pool, queries,
                   transitions>>

\* A section whose content the model does not look into.
ReadSection_Swallow(p) ==
    /\ Running(p)
    /\ IF file.corrupt = p THEN Swallow(p) ELSE Advance(p)
    /\ cursor' = IF p = "offsets" /\ file.corrupt # p THEN cursor + 76 ELSE cursor
    /\ UNCHANGED <<enumVars, passVars, tripVars, log, exb_cursor, node_calls, sideVars, dbVars, tableVars, file, writable,
                   string_pool, self, queries, transitions>>

\* The section offsets are the 19 words that follow the first 40 bytes
\* (lines 111-118); every other section starts with a seek.
ReadSection(p) ==
    /\ Running(p)
    /\ IF file.corrupt = p THEN Raise(p) ELSE Advance(p)
    /\ cursor' = IF p = "offsets" /\ file.corrupt # p THEN cursor + 76 ELSE cursor
    /\ UNCHANGED <<enumVars, passVars, tripVars, log, exb_cursor, node_calls, sideVars, dbVars, tableVars, file, writable,
                   string_pool, self, queries, transitions>>

\* reader.seek(blackboard_offset); self.blackboard = Blackboard._read(reader)
\* (lines 147-148)
ReadBlackboard ==
    /\ Running("blackboard")
    /\ LET bb == Blackboard_read(file.blackboard, string_pool)
       IN  IF file.corrupt = "blackboard" \/ ~bb.ok
           THEN Raise("blackboard") /\ UNCHANGED self
           ELSE self' = [self EXCEPT !.blackboard = bb.val] /\ Advance("blackboard")
    /\ UNCHANGED <<enumVars, passVars, tripVars, posVars, sideVars, dbVars, tableVars, file, writable, string_pool,
                   queries, transitions>>

\* reader.seek(property_offset); properties = PropertySet._read(reader,
\* io_param_offset) (lines 154-155)
ReadProperties ==
    /\ Running("properties")
    /\ LET r == PropertySet_read(file.properties, string_pool)
       IN  IF file.corrupt = "properties" \/ ~r.ok
           THEN Raise("properties") /\ UNCHANGED properties
           ELSE properties' = r.val /\ Advance("properties")
    /\ UNCHANGED <<enumVars, passVars, tripVars, posVars, sideVars, dbVars, attachments,
                   attachment_indices, file, writable, string_pool, self, queries, transitions>>

\* reader.seek(attachment_offset); attachments = [Attachment._read(reader,
\* properties) for i in range(attachment_count)] (lines 157-160)
ReadAttachments ==
    /\ Running("attachments")
    /\ LET r == from_list([k \in 1..Len(file.attachments) |->
                              Attachment_read(file.attachments[k], k - 1, string_pool,
                                              properties)])
       IN  IF file.corrupt = "attachments" \/ ~r.ok
           THEN Raise("attachments") /\ UNCHANGED attachments
           ELSE attachments' = r.val /\ Advance("attachments")
    /\ UNCHANGED <<enumVars, passVars, tripVars, posVars, sideVars, dbVars, attachment_indices,
                   properties, file, writable, string_pool, self, queries, transitions>>

\* reader.seek(attachment_index_offset); attachment_indices = [reader.read_u32()
\* for i in range(...)] (lines 162-165)
ReadAttachmentIndices ==
    /\ Running("attachment_indices")
    /\ IF file.corrupt = "attachment_indices"
       THEN Raise("attachment_indices") /\ UNCHANGED attachment_indices
       ELSE attachment_indices' = file.attachment_indices /\ Advance("attachment_indices")
    /\ UNCHANGED <<enumVars, passVars, tripVars, posVars, sideVars, dbVars, attachments, properties,
                   file, writable, string_pool, self, queries, transitions>>

\* reader.seek(enum_resolve_offset) ... enums_to_resolve (lines 133-137)
ReadEnumTable ==
    /\ Running("enum_table")
    /\ IF file.corrupt = "enum_table"
       THEN Raise("enum_table") /\ UNCHANGED enums_to_resolve
       ELSE enums_to_resolve' = file.enum_table /\ Advance("enum_table")
    /\ UNCHANGED <<stream, ENUM_DB, enum_i, warnings, n_writes, passVars, tripVars, posVars, sideVars, dbVars, tableVars,
                   file, writable, string_pool, self, queries, transitions>>

\* if len(enums_to_resolve) > 0: the stream must be writable (lines 139-143)
CheckWritable_NoCheck ==
    /\ Running("enum_check")
    /\ Advance("enum_check")
    /\ warnings' = warnings
         + (IF Len(enums_to_resolve) > 0 /\ DOMAIN ENUM_DB = {} THEN 1 ELSE 0)
    /\ UNCHANGED <<stream, ENUM_DB, enums_to_resolve, enum_i, n_writes, passVars, tripVars, posVars, sideVars, dbVars, tableVars,
                   file, writable, string_pool, self, queries, transitions>>

CheckWritable ==
    /\ Running("enum_check")
    /\ IF Len(enums_to_resolve) > 0 /\ ~writable
       THEN Raise("enum_check") /\ UNCHANGED warnings
       ELSE /\ Advance("enum_check")
            /\ warnings' = warnings
                 + (IF Len(enums_to_resolve) > 0 /\ DOMAIN ENUM_DB = {} THEN 1 ELSE 0)
    /\ UNCHANGED <<stream, ENUM_DB, enums_to_resolve, enum_i, n_writes, passVars, tripVars, posVars, sideVars, dbVars, tableVars,
                   file, writable, string_pool, self, queries, transitions>>

\* The loop over enums_to_resolve has run through (line 145 to line 147).
EndPatches_Early ==
    /\ Running("enum_apply")
    /\ Advance("enum_apply")
    /\ UNCHANGED <<enumVars, passVars, tripVars, posVars, sideVars, dbVars, tableVars, file, writable, string_pool, self, queries, transitions>>

EndPatches ==
    /\ Running("enum_apply")
    /\ enum_i = Len(enums_to_resolve)
    /\ Advance("enum_apply")
    /\ UNCHANGED <<enumVars, passVars, tripVars, posVars, sideVars, dbVars, tableVars, file, writable, string_pool, self, queries, transitions>>

\* SUPPORTED_VERSIONS of expression/expression.py
EXB_SUPPORTED_VERSIONS == {1, 2}

\* ExpressionModule.read: the module, or the exception, and the position of
\* the module's reader after the last header word read.
ExpressionModule_read(raw) ==
    IF raw.magic # "EXB " THEN [ok |-> FALSE, val |-> <<>>, cursor |-> 4]
    ELSE IF raw.version \notin EXB_SUPPORTED_VERSIONS
    THEN [ok |-> FALSE, val |-> <<>>, cursor |-> 4 + 4]
    ELSE [ok |-> TRUE, val |-> [version |-> raw.version, expressions |-> raw.expressions],
          cursor |-> 4 + 4 + 36]

\* if expression_offset != 0: self.expressions = ExpressionModule.from_binary(...)
\* (lines 150-152); file.expressions is empty for an expression_offset of 0.
ReadExpressions ==
    /\ Running("expressions")
    /\ IF file.expressions = <<>>
       THEN Advance("expressions") /\ UNCHANGED <<self, exb_cursor>>
       ELSE LET module == ExpressionModule_read(file.expressions[1])
            IN  /\ exb_cursor' = module.cursor
                /\ IF file.corrupt = "expressions" \/ ~module.ok
                   THEN Raise("expressions") /\ UNCHANGED self
                   ELSE /\ self' = [self EXCEPT !.expressions = <<module.val>>]
                        /\ Advance("expressions")
    /\ UNCHANGED <<enumVars, passVars, tripVars, cursor, log, node_calls, sideVars, dbVars, tableVars, file, writable,
                   string_pool, queries, transitions>>

\* AINB._read_transition: the type is the low byte of the flag word, update
\* post calc its top bit; the command name is read for type 0 only.
read_transition(raw, pool) ==
    LET name == IF raw.transition_type = 0
                THEN read_string_offset(pool, raw.command_name) ELSE Ok(<<>>)
    IN  IF ~name.ok THEN Raised
        ELSE Ok([transition_type |-> raw.transition_type,
                 update_post_calc |-> raw.update_post_calc # 0,
                 command_name |-> name.val])

\* AINB._read_transitions: one Transition for every entry of the table.
read_transitions(table, pool) ==
    from_list([k \in 1..Len(table) |-> read_transition(table[k], pool)])

\* if transition_offset < query_offset: transitions = self._read_transitions(reader)
\* (lines 175-178)
ReadTransitions ==
    /\ Running("transitions")
    /\ IF file.transition_offset < file.query_offset
       THEN LET r == read_transitions(file.transition_table, string_pool)
            IN  IF file.corrupt = "transitions" \/ ~r.ok
                THEN Raise("transitions") /\ UNCHANGED transitions
                ELSE transitions' = r.val /\ Advance("transitions")
       ELSE Advance("transitions") /\ UNCHANGED transitions
    /\ UNCHANGED <<enumVars, passVars, tripVars, posVars, sideVars, dbVars, tableVars, file, writable, string_pool,
                   self, queries>>

\* queries = [self._read_query(reader) ...] (lines 180-187)
ReadQueries ==
    /\ Running("queries")
    /\ IF file.corrupt = "queries"
       THEN Raise("queries") /\ UNCHANGED queries
       ELSE queries' = file.query_table /\ Advance("queries")
    /\ UNCHANGED <<enumVars, passVars, tripVars, posVars, sideVars, dbVars, tableVars, file, writable, string_pool, self,
                   transitions>>

\* self.modules = [self._read_module(reader) ...] (lines 195-199): the path
\* of each module is resolved through the string pool.
ReadModules ==
    /\ Running("modules")
    /\ IF file.corrupt = "modules"
            \/ \E k \in 1..Len(file.module_paths) : ~InPool(string_pool, file.module_paths[k])
       THEN Raise("modules") /\ UNCHANGED self
       ELSE /\ self' = [self EXCEPT !.modules =
                          [k \in 1..Len(file.module_paths) |->
                              get_string(string_pool, file.module_paths[k])]]
            /\ Advance("modules")
    /\ UNCHANGED <<enumVars, passVars, tripVars, posVars, sideVars, dbVars, tableVars, file, writable, string_pool, queries, transitions>>

\* self.blackboard_id = reader.read_u32() (lines 201-203)
ReadBlackboardIds ==
    /\ Running("blackboard_ids")
    /\ IF file.blackboard_id_offset + 4 > Len(stream)
       THEN Raise("blackboard_ids") /\ UNCHANGED self
       ELSE /\ self' = [self EXCEPT !.blackboard_id =
                                       read_u32(stream, file.blackboard_id_offset)]
            /\ Advance("blackboard_ids")
    /\ UNCHANGED <<enumVars, passVars, tripVars, posVars, sideVars, dbVars, tableVars, file, writable, string_pool, queries, transitions>>

\* The warnings of the replacement section.
replacement_warnings(version, f) ==
    IF version >= 1031
    THEN IF f.replaced # 0 THEN <<ParseWarning("replacements already processed", -1)>>
         ELSE <<>>
    ELSE IF f.replacement_offset # 0
         THEN <<ParseWarning("replacement table unsupported", -1)>>
         ELSE <<>>

\* the replacement table, read for version >= 0x407 only (lines 205-220)
ReadReplacements_AnyVersion ==
    /\ Running("replacements")
    /\ IF file.corrupt = "replacements"
       THEN Raise("replacements") /\ UNCHANGED <<self, warnings, log>>
       ELSE /\ self' = [self EXCEPT !.replacement_table = file.replacements]
            /\ warnings' = warnings + Len(replacement_warnings(self.version, file))
            /\ log' = log \o replacement_warnings(self.version, file)
            /\ Advance("replacements")
    /\ UNCHANGED <<stream, ENUM_DB, enums_to_resolve, enum_i, n_writes, passVars, tripVars,
                   cursor, exb_cursor, node_calls, sideVars, dbVars, tableVars, file, writable, string_pool, queries, transitions>>

ReadReplacements ==
    /\ Running("replacements")
    /\ IF file.corrupt = "replacements" /\ self.version >= 1031
       THEN Raise("replacements") /\ UNCHANGED <<self, warnings, log>>
       ELSE /\ self' = [self EXCEPT !.replacement_table =
                          IF self.version >= 1031 THEN file.replacements ELSE <<>>]
            /\ warnings' = warnings + Len(replacement_warnings(self.version, file))
            /\ log' = log \o replacement_warnings(self.version, file)
            /\ Advance("replacements")
    /\ UNCHANGED <<stream, ENUM_DB, enums_to_resolve, enum_i, n_writes, passVars, tripVars,
                   cursor, exb_cursor, node_calls, sideVars, dbVars, tableVars, file, writable, string_pool, queries, transitions>>

\* The size of the fixed record of a node: 0x3C bytes with the name hash of
\* version 0x407, 0x38 bytes without.
NodeSize(version) == IF version >= 1031 THEN 60 ELSE 56

\* The bytes of the node parameter block up to the plug offsets: base index
\* and count of the properties, of the inputs and of the outputs of each of
\* the six parameter types, then base index and count of each plug type.
ParamBlockSize == 6 * 8 + 6 * 16 + 10 * 2

\* with reader.temp_seek(offset): the cursor after the block, which ended at
\* inside, is the cursor saved on entry, whether the block returned or raised.
temp_seek(saved, inside) == saved

\* tell() when the call of Node._read for the record at start ends, and the
\* statement that raised when it ends with an exception.
Node_read_cursor_Seek(rn, start, version, pool, qs, trans) ==
    LET params == rn.node_param_offset + ParamBlockSize + 4
    IN  IF rn.type \notin NodeTypes THEN [at |-> "type", cursor |-> start + 2]
        ELSE IF ~InPool(pool, rn.name) THEN [at |-> "name", cursor |-> start + 12]
        ELSE IF version < 1031 /\ ~InPool(pool, StateRecord(rn, version).desired_state)
        THEN [at |-> "state_info", cursor |-> rn.state_info_offset + 4]
        ELSE IF ~Node_attachments(rn, attachments, attachment_indices).ok
        THEN [at |-> "attachments", cursor |-> start + NodeSize(version)]
        ELSE IF ~Node_read(rn, version, pool, qs, trans).ok
        THEN [at |-> "plugs", cursor |-> params]
        ELSE [at |-> "return", cursor |-> params]

Node_read_cursor(rn, start, version, pool, qs, trans) ==
    LET size == NodeSize(version)
        fields == start + size - 16
        state == IF version < 1031
                 THEN temp_seek(fields, rn.state_info_offset + 20) ELSE fields
        guid == state + 16
        params == temp_seek(guid, temp_seek(rn.node_param_offset + ParamBlockSize,
                                            rn.node_param_offset + ParamBlockSize + 4))
    IN  IF rn.type \notin NodeTypes THEN [at |-> "type", cursor |-> start + 2]
        ELSE IF ~InPool(pool, rn.name) THEN [at |-> "name", cursor |-> start + 12]
        ELSE IF version < 1031 /\ ~InPool(pool, StateRecord(rn, version).desired_state)
        THEN [at |-> "state_info", cursor |-> temp_seek(fields, rn.state_info_offset + 4)]
        ELSE IF ~Node_attachments(rn, attachments, attachment_indices).ok
        THEN [at |-> "attachments", cursor |-> guid]
        ELSE IF ~Node_read(rn, version, pool, qs, trans).ok
        THEN [at |-> "plugs", cursor |-> params]
        ELSE [at |-> "return", cursor |-> params]

\* The record the cursor is at: the records of the nodes follow each other
\* from base on; elsewhere the bytes are no record of a node.
NodeAt(raw_nodes, base, pos, version) ==
    LET k == (pos - base) \div NodeSize(version) + 1
    IN  IF pos >= base /\ (pos - base) % NodeSize(version) = 0 /\ k <= Len(raw_nodes)
        THEN raw_nodes[k]
        ELSE [type |-> -1]

\* The nodes read so far, in order, or the exception of the first that
\* fails, with the warnings emitted on the way, the cursor at the end and
\* the calls made.  The call for position i - 1 starts at pos.
RECURSIVE read_nodes(_, _, _, _, _, _, _, _, _)
read_nodes(raw_nodes, i, version, pool, qs, trans, modules, pos, base) ==
    IF i > Len(raw_nodes)
    THEN [ok |-> TRUE, val |-> <<>>, log |-> <<>>, cursor |-> pos, calls |-> <<>>]
    ELSE LET rn == NodeAt(raw_nodes, base, pos, version)
             node == Node_read(rn, version, pool, qs, trans)
             warned == Node_read_warnings(rn, i - 1, version, pool, modules)
             end == Node_read_cursor(rn, pos, version, pool, qs, trans)
             call == [start |-> pos, end |-> end.cursor, at |-> end.at]
             rest == read_nodes(raw_nodes, i + 1, version, pool, qs, trans, modules,
                                end.cursor, base)
         IN  IF ~node.ok
             THEN [ok |-> FALSE, val |-> <<>>, log |-> warned, cursor |-> end.cursor,
                   calls |-> <<call>>]
             ELSE IF ~rest.ok
             THEN [ok |-> FALSE, val |-> <<>>, log |-> warned \o rest.log,
                   cursor |-> rest.cursor, calls |-> <<call>> \o rest.calls]
             ELSE [ok |-> TRUE, val |-> <<node.val>> \o rest.val,
                   log |-> warned \o rest.log, cursor |-> rest.cursor,
                   calls |-> <<call>> \o rest.calls]

\* reader.seek(node_offset); self.nodes = [Node._read(...) for i in
\* range(node_count)] (lines 222-225).  node_offset is the cursor after the
\* commands, and the files of the model hold no command.
ReadNodes ==
    /\ Running("nodes")
    /\ LET r == read_nodes(file.nodes, 1, self.version, string_pool, queries, transitions,
                           self.modules, cursor, cursor)
       IN  /\ IF file.corrupt = "nodes"
              THEN Raise("nodes") /\ UNCHANGED <<self, log, warnings, cursor, node_calls>>
              ELSE /\ log' = log \o r.log
                   /\ warnings' = warnings + Len(r.log)
                   /\ cursor' = r.cursor
                   /\ node_calls' = r.calls
                   /\ IF ~r.ok
                      THEN Raise("nodes") /\ UNCHANGED self
                      ELSE self' = [self EXCEPT !.nodes = r.val] /\ Advance("nodes")
    /\ UNCHANGED <<stream, ENUM_DB, enums_to_resolve, enum_i, n_writes, passVars, tripVars,
                   exb_cursor, sideVars, dbVars, tableVars, file, writable, string_pool, queries, transitions>>

\* for node in self.nodes: self._fix_query_indices(node, query_indices)
FixQueryIndices ==
    /\ Running("fix_queries")
    /\ LET qi == query_indices(self.nodes)
           fixed == [k \in 1..Len(self.nodes) |-> fix_query_indices(self.nodes[k], qi)]
       IN  IF \E k \in 1..Len(self.nodes) : ~fixed[k].ok
           THEN Raise("fix_queries") /\ UNCHANGED self
           ELSE /\ self' = [self EXCEPT !.nodes = [k \in 1..Len(self.nodes) |-> fixed[k].val]]
                /\ Advance("fix_queries")
    /\ UNCHANGED <<enumVars, passVars, tripVars, posVars, sideVars, dbVars, tableVars, file, writable, string_pool, queries, transitions>>

\* the reserved header words and sections 0x58 and 0x6c, then return self
Return ==
    /\ Running("trailer")
    /\ IF file.corrupt = "trailer"
       THEN Raise("trailer")
       ELSE /\ pc' = "done"
            /\ done' = Append(done, "trailer")
            /\ result' = "returned"
            /\ UNCHANGED raised_in
    /\ UNCHANGED <<enumVars, passVars, tripVars, posVars, sideVars, dbVars, tableVars, file, writable, string_pool, self, queries, transitions>>

(***************************************************************************)
(* The dictionary view: as_dict and from_dict of AINB and of the classes   *)
(* it holds.  A dictionary is a function from its keys; a key is in a      *)
(* dictionary when it is in its DOMAIN.  A JSON text is represented by the *)
(* dictionary it denotes.                                                  *)
(***************************************************************************)
EmptyDict == [k \in {} |-> 0]

\* NodeType.name
NodeType_name(t) ==
    CASE t = UserDefined -> "UserDefined"
      [] t = Element_S32Selector -> "Element_S32Selector"
      [] t = Element_F32Selector -> "Element_F32Selector"
      [] t = Element_StringSelector -> "Element_StringSelector"

\* NodeType[name]
NodeType_of(name) == CHOOSE t \in NodeTypes : NodeType_name(t) = name

Bit(flags, mask) == (flags \div mask) % 2 # 0

\* NodeFlag._get_flag_list
get_flag_list(flags) ==
    (IF Bit(flags, 1) THEN <<"Is Query">> ELSE <<>>)
      \o (IF Bit(flags, 2) THEN <<"Is Module">> ELSE <<>>)
      \o (IF Bit(flags, 4) THEN <<"Is Root Node">> ELSE <<>>)
      \o (IF Bit(flags, 8) THEN <<"Use MultiParam Type 2">> ELSE <<>>)

InList(x, list) == \E k \in 1..Len(list) : list[k] = x

\* NodeFlag._from_flag_list
from_flag_list(data) ==
    (IF InList("Is Query", data) THEN 1 ELSE 0)
      + (IF InList("Is Module", data) THEN 2 ELSE 0)
      + (IF InList("Is Root Node", data) THEN 4 ELSE 0)
      + (IF InList("Use MultiParam Type 2", data) THEN 8 ELSE 0)

ChildPlug_as_dict(plug) ==
    ("Node Index" :> plug.node_index) @@ ("Name" :> plug.name)

ChildPlug_from_dict(data) ==
    Ok([class |-> "ChildPlug", node_index |-> data["Node Index"], name |-> data["Name"]])

\* S32SelectorPlug._as_dict
S32SelectorPlug_as_dict(plug) ==
    IF plug.is_default
    THEN ("Node Index" :> plug.node_index) @@ ("Name" :> plug.name)
           @@ ("Is Default" :> plug.is_default)
    ELSE ("Node Index" :> plug.node_index) @@ ("Name" :> plug.name)
           @@ ("Condition" :> plug.condition)

\* S32SelectorPlug._from_dict
S32SelectorPlug_from_dict(data) ==
    Ok([class |-> "S32SelectorPlug", node_index |-> data["Node Index"],
        name |-> data["Name"],
        condition |-> IF "Condition" \in DOMAIN data THEN data["Condition"] ELSE 0,
        is_default |-> IF "Condition" \in DOMAIN data THEN FALSE ELSE data["Is Default"],
        blackboard_index |-> -1])

\* F32SelectorPlug._format_condition
format_condition(condition, bb_index, is_min) ==
    IF bb_index = -1
    THEN IF is_min THEN "Condition Min" :> condition ELSE "Condition Max" :> condition
    ELSE IF is_min THEN "Condition Min Blackboard Index" :> bb_index
                   ELSE "Condition Max Blackboard Index" :> bb_index

\* F32SelectorPlug._as_dict
F32SelectorPlug_as_dict(plug) ==
    IF plug.is_default
    THEN ("Node Index" :> plug.node_index) @@ ("Name" :> plug.name)
           @@ ("Is Default" :> plug.is_default)
    ELSE ("Node Index" :> plug.node_index) @@ ("Name" :> plug.name)
           @@ format_condition(plug.condition_min, plug.blackboard_index_min, TRUE)
           @@ format_condition(plug.condition_max, plug.blackboard_index_max, FALSE)

\* F32SelectorPlug._from_dict
F32SelectorPlug_from_dict(data) ==
    LET default == "Is Default" \in DOMAIN data
        has_min == ~default /\ "Condition Min" \in DOMAIN data
        has_max == ~default /\ "Condition Max" \in DOMAIN data
    IN  Ok([class |-> "F32SelectorPlug", node_index |-> data["Node Index"],
            name |-> data["Name"],
            condition_min |-> IF has_min THEN data["Condition Min"] ELSE 0,
            blackboard_index_min |->
                IF default \/ has_min THEN -1 ELSE data["Condition Min Blackboard Index"],
            condition_max |-> IF has_max THEN data["Condition Max"] ELSE 0,
            blackboard_index_max |->
                IF default \/ has_max THEN -1 ELSE data["Condition Max Blackboard Index"],
            is_default |-> IF default THEN data["Is Default"] ELSE FALSE])

\* StringSelectorPlug._as_dict
StringSelectorPlug_as_dict(plug) ==
    IF plug.is_default
    THEN ("Node Index" :> plug.node_index) @@ ("Name" :> plug.name)
           @@ ("Is Default" :> plug.is_default)
    ELSE ("Node Index" :> plug.node_index) @@ ("Name" :> plug.name)
           @@ ("Condition" :> plug.condition)

\* StringSelectorPlug._from_dict
StringSelectorPlug_from_dict(data) ==
    Ok([class |-> "StringSelectorPlug", node_index |-> data["Node Index"],
        name |-> data["Name"],
        condition |-> IF "Condition" \in DOMAIN data THEN data["Condition"] ELSE <<>>,
        is_default |-> IF "Condition" \in DOMAIN data THEN FALSE ELSE data["Is Default"],
        blackboard_index |-> -1])

\* GenericPlug._as_dict
GenericPlug_as_dict(plug) ==
    ("Node Index" :> plug.node_index) @@ ("Name" :> plug.name)

\* GenericPlug._from_dict
GenericPlug_from_dict(data) ==
    Ok([class |-> "GenericPlug", node_index |-> data["Node Index"], name |-> data["Name"]])

\* TransitionPlug._as_dict
TransitionPlug_as_dict(plug) ==
    ("Node Index" :> plug.node_index)
      @@ ("Transition Type" :> plug.transition.transition_type)
      @@ ("Update Post Calc" :> plug.transition.update_post_calc)
      @@ (IF plug.transition.transition_type = 0
          THEN "Transition Name" :> plug.transition.command_name ELSE EmptyDict)

\* TransitionPlug._from_dict
TransitionPlug_from_dict(data) ==
    Ok([class |-> "TransitionPlug", node_index |-> data["Node Index"],
        transition |-> [transition_type |-> data["Transition Type"],
                        update_post_calc |-> data["Update Post Calc"],
                        command_name |-> IF "Transition Name" \in DOMAIN data
                                         THEN data["Transition Name"] ELSE <<>>]])

\* plug._as_dict(): the method of the plug's class.
Plug_as_dict(plug) ==
    IF plug.class = "S32SelectorPlug" THEN S32SelectorPlug_as_dict(plug)
    ELSE IF plug.class = "F32SelectorPlug" THEN F32SelectorPlug_as_dict(plug)
    ELSE IF plug.class = "StringSelectorPlug" THEN StringSelectorPlug_as_dict(plug)
    ELSE IF plug.class = "GenericPlug" THEN GenericPlug_as_dict(plug)
    ELSE IF plug.class = "TransitionPlug" THEN TransitionPlug_as_dict(plug)
    ELSE ChildPlug_as_dict(plug)

\* Node._read_plug_from_dict for the Child slot.
read_plug_from_dict(type, data) ==
    IF type = Element_S32Selector THEN S32SelectorPlug_from_dict(data)
    ELSE IF type = Element_F32Selector THEN F32SelectorPlug_from_dict(data)
    ELSE IF type = Element_StringSelector THEN StringSelectorPlug_from_dict(data)
    ELSE ChildPlug_from_dict(data)

\* The slots the model follows; the String and Int slots are empty in
\* every file and dictionary of the model.
PlugTypes == {PlugType_Generic, PlugType_Child, PlugType_Transition} \cup ReservedPlugTypes

\* Node.get_plugs
get_plugs(node, plug_type) ==
    IF plug_type = PlugType_Child THEN node.child_plugs
    ELSE IF plug_type = PlugType_Generic THEN node.generic_plugs
    ELSE IF plug_type = PlugType_Transition THEN node.transition_plugs
    ELSE IF plug_type \in ReservedPlugTypes THEN node.reserved_plugs[plug_type]
    ELSE <<>>

\* Node._read_plug_from_dict
Node_read_plug_from_dict(plug_type, type, data) ==
    IF plug_type = PlugType_Generic THEN GenericPlug_from_dict(data)
    ELSE IF plug_type = PlugType_Child THEN read_plug_from_dict(type, data)
    ELSE IF plug_type = PlugType_Transition THEN TransitionPlug_from_dict(data)
    ELSE Raised

\* "Plugs" of Node._as_dict: a key for every slot that holds a plug.
Plugs_as_dict(node) ==
    LET used == {t \in PlugTypes : Len(get_plugs(node, t)) > 0}
    IN  [name \in {PlugType_name(t) : t \in used} |->
            LET t == CHOOSE u \in used : PlugType_name(u) = name
            IN  [k \in 1..Len(get_plugs(node, t)) |-> Plug_as_dict(get_plugs(node, t)[k])]]

\* The loop over PlugType of Node._from_dict: the list of every slot whose
\* name is a key of data["Plugs"].
Plugs_from_dict(type, data) ==
    [t \in PlugTypes |->
        IF PlugType_name(t) \in DOMAIN data
        THEN from_list([k \in 1..Len(data[PlugType_name(t)]) |->
                           Node_read_plug_from_dict(t, type, data[PlugType_name(t)][k])])
        ELSE Ok(<<>>)]

\* StateInfo._as_dict
StateInfo_as_dict(info) ==
    ("Desired State" :> info.desired_state) @@ ("Unknown04" :> info.unk04)

\* StateInfo._from_dict: the class defines no such attribute, the lookup
\* raises AttributeError.
StateInfo_from_dict(data) == Raised

\* Node._as_dict
\* Property._as_dict, without the flags
Property_as_dict(prop) ==
    ("Name" :> prop.name) @@ ("Default Value" :> prop.default_value)

\* Property._from_dict, without the flags: int, bool, float, str and tuple
\* leave a value of their own type as it is; a pointer takes no value but
\* None.  The object is a new one.
Property_from_dict(data, param_type) ==
    IF param_type = ParamType_Pointer /\ data["Default Value"] # "None" THEN Raised
    ELSE Ok([id |-> -1, type |-> param_type, name |-> data["Name"],
             default_value |-> data["Default Value"]])

\* PropertySet._as_dict: the types that have properties.
PropertySet_as_dict(pset) ==
    [name \in {ParamType_name(t) : t \in {u \in ParamTypes : Len(pset[u]) > 0}} |->
        LET t == CHOOSE u \in ParamTypes : ParamType_name(u) = name
        IN  [k \in 1..Len(pset[t]) |-> Property_as_dict(pset[t][k])]]

\* PropertySet._from_dict
PropertySet_from_dict(data) ==
    LET lists == [t \in ParamTypes |->
                     IF ParamType_name(t) \notin DOMAIN data THEN Ok(<<>>)
                     ELSE from_list([k \in 1..Len(data[ParamType_name(t)]) |->
                                        Property_from_dict(data[ParamType_name(t)][k], t)])]
    IN  IF \E t \in ParamTypes : ~lists[t].ok THEN Raised
        ELSE Ok([t \in ParamTypes |-> lists[t].val])

\* Attachment._as_dict
Attachment_as_dict(attachment) ==
    ("Name" :> attachment.name)
      @@ ("Properties" :> PropertySet_as_dict(attachment.properties))

\* Attachment._from_dict: the object is a new one.
Attachment_from_dict(data) ==
    LET own == PropertySet_from_dict(data["Properties"])
    IN  IF ~own.ok THEN Raised
        ELSE Ok([id |-> -1, name |-> data["Name"], properties |-> own.val])

Node_as_dict(node) ==
    ("Node Type" :> NodeType_name(node.type))
      @@ ("Node Index" :> node.index)
      @@ ("Name" :> node.name)
      @@ ("Flags" :> get_flag_list(node.flags))
      @@ ("Queries" :> node.queries)
      @@ ("Attachments" :> [k \in 1..Len(node.attachments) |->
                              Attachment_as_dict(node.attachments[k])])
      @@ ("Properties" :> PropertySet_as_dict(node.properties))
      @@ (IF Len(node.state_info) > 0
          THEN "State Info" :> StateInfo_as_dict(node.state_info[1])
          ELSE EmptyDict)
      @@ ("Plugs" :> Plugs_as_dict(node))

\* Node._from_dict
Node_from_dict(data, index) ==
    LET type == NodeType_of(data["Node Type"])
        plugs == Plugs_from_dict(type, data["Plugs"])
        state == IF "State Info" \in DOMAIN data
                 THEN StateInfo_from_dict(data["State Info"])
                 ELSE Ok(<<>>)
        atts == from_list([k \in 1..Len(data["Attachments"]) |->
                              Attachment_from_dict(data["Attachments"][k])])
        props == PropertySet_from_dict(data["Properties"])
    IN  IF data["Node Index"] # index THEN Raised
        ELSE IF ~atts.ok \/ ~props.ok THEN Raised
        ELSE IF (\E t \in PlugTypes : ~plugs[t].ok) \/ ~state.ok THEN Raised
        ELSE Ok([type |-> type, index |-> data["Node Index"],
                 name |-> data["Name"],
                 flags |-> from_flag_list(data["Flags"]),
                 queries |-> data["Queries"],
                 attachments |-> atts.val, properties |-> props.val,
                 state_info |-> IF "State Info" \in DOMAIN data THEN <<state.val>> ELSE <<>>,
                 child_plugs |-> plugs[PlugType_Child].val,
                 generic_plugs |-> plugs[PlugType_Generic].val,
                 transition_plugs |-> plugs[PlugType_Transition].val,
                 reserved_plugs |-> [t \in ReservedPlugTypes |-> plugs[t].val]])

\* Expression._format_instruction: the text of an instruction, represented
\* by its address and the instruction it prints.
format_instruction(instruction, addr) == <<addr, instruction>>

\* parse_instruction (expression/parser.py): raises NotImplementedError.
parse_instruction(text) == Raised

\* Expression._as_dict
Expression_as_dict(expr, index) ==
    ("Expression Index" :> index)
      @@ (IF Len(expr.setup_command) > 0
          THEN "Setup" :> [i \in 1..Len(expr.setup_command) |->
                              format_instruction(expr.setup_command[i], (i - 1) * 8)]
          ELSE EmptyDict)
      @@ ("Main" :> [i \in 1..Len(expr.main_command) |->
                        format_instruction(expr.main_command[i], (i - 1) * 8)])

\* Expression._from_dict
Expression_from_dict(data) ==
    LET setup == IF "Setup" \in DOMAIN data
                 THEN from_list([k \in 1..Len(data["Setup"]) |->
                                    parse_instruction(data["Setup"][k])])
                 ELSE Ok(<<>>)
        main == from_list([k \in 1..Len(data["Main"]) |-> parse_instruction(data["Main"][k])])
    IN  IF ~setup.ok \/ ~main.ok THEN Raised
        ELSE Ok([setup_command |-> setup.val, main_command |-> main.val])

\* ExpressionModule.as_dict
ExpressionModule_as_dict(module) ==
    ("Version" :> module.version)
      @@ ("Expressions" :> [i \in 1..Len(module.expressions) |->
                               Expression_as_dict(module.expressions[i], i - 1)])

\* ExpressionModule.from_dict
ExpressionModule_from_dict(data) ==
    LET exprs == from_list([k \in 1..Len(data["Expressions"]) |->
                               Expression_from_dict(data["Expressions"][k])])
    IN  IF ~exprs.ok THEN Raised
        ELSE Ok([version |-> data["Version"], expressions |-> exprs.val])

\* ReplacementType.name
ReplacementType_name(t) ==
    CASE t = 0 -> "RemoveChild" [] t = 1 -> "ReplaceChild" [] t = 2 -> "RemoveAttachment"

\* ReplacementEntry._as_dict
ReplacementEntry_as_dict(entry) ==
    ("Type" :> ReplacementType_name(entry.type))
      @@ ("Node Index" :> entry.node_index)
      @@ (IF entry.type # 2
          THEN ("Child Plug Index" :> entry.replace_index)
                 @@ (IF entry.type = 1
                     THEN "Replacement Node Index" :> entry.new_index
                     ELSE EmptyDict)
          ELSE "Attachment Index" :> entry.replace_index)

\* ReplacementEntry._from_dict: the class defines no such attribute, the
\* lookup raises AttributeError.
ReplacementEntry_from_dict(data) == Raised

\* Module._as_dict
Module_as_dict(module) == "Path" :> module

\* Module._from_dict: the class defines no such attribute, the lookup raises
\* AttributeError.
Module_from_dict(data) == Raised

\* BBParam._as_dict
BBParam_as_dict(param, index) ==
    ("Blackboard Index" :> index)
      @@ ("Name" :> param.name)
      @@ ("Notes" :> param.notes)
      @@ (IF param.file_ref # <<>> THEN "Source File" :> param.file_ref ELSE EmptyDict)
      @@ ("Flags" :> param.flags)
      @@ ("Default Value" :> param.default_value)

\* BBParam._from_dict: str, int, float, bool and tuple leave a value of
\* their own type as it is; a pointer parameter takes no value but None.
BBParam_from_dict(data, param_type) ==
    IF param_type = BBParamType_VoidPtr /\ data["Default Value"] # NoValue THEN Raised
    ELSE Ok([name |-> data["Name"], type |-> param_type, notes |-> data["Notes"],
             file_ref |-> IF "Source File" \in DOMAIN data THEN data["Source File"] ELSE <<>>,
             flags |-> data["Flags"], default_value |-> data["Default Value"]])

\* Blackboard._as_dict: the types that have parameters.
Blackboard_as_dict(bb) ==
    [name \in {BBParamType_name(t) : t \in {u \in BBParamTypes : Len(bb[u]) > 0}} |->
        LET t == CHOOSE u \in BBParamTypes : BBParamType_name(u) = name
        IN  [k \in 1..Len(bb[t]) |-> BBParam_as_dict(bb[t][k], k - 1)]]

\* Blackboard._from_dict
Blackboard_from_dict(data) ==
    LET lists == [t \in BBParamTypes |->
                     IF BBParamType_name(t) \notin DOMAIN data THEN Ok(<<>>)
                     ELSE from_list([k \in 1..Len(data[BBParamType_name(t)]) |->
                                        BBParam_from_dict(data[BBParamType_name(t)][k], t)])]
    IN  IF \E t \in BBParamTypes : ~lists[t].ok THEN Raised
        ELSE Ok([t \in BBParamTypes |-> lists[t].val])

\* AINB.as_dict
as_dict(obj) ==
    ("Version" :> obj.version)
      @@ ("Filename" :> obj.filename)
      @@ ("Category" :> obj.category)
      @@ ("Blackboard ID" :> obj.blackboard_id)
      @@ ("Blackboard" :> Blackboard_as_dict(obj.blackboard))
      @@ ("Nodes" :> [k \in 1..Len(obj.nodes) |-> Node_as_dict(obj.nodes[k])])
      @@ ("Expressions" :> IF Len(obj.expressions) > 0
                           THEN ExpressionModule_as_dict(obj.expressions[1])
                           ELSE EmptyDict)
      @@ (IF obj.version < 1031 THEN EmptyDict
          ELSE "Replacement Table" :>
                  [k \in 1..Len(obj.replacement_table) |->
                      ReplacementEntry_as_dict(obj.replacement_table[k])])
      @@ ("Modules" :> [k \in 1..Len(obj.modules) |-> Module_as_dict(obj.modules[k])])

\* AINB.from_dict
from_dict(data) ==
    LET nodes == from_list([k \in 1..Len(data["Nodes"]) |->
                               Node_from_dict(data["Nodes"][k], k - 1)])
        exprs == IF DOMAIN data["Expressions"] # {}
                 THEN ExpressionModule_from_dict(data["Expressions"])
                 ELSE Ok(<<>>)
        table == IF data["Version"] >= 1031
                 THEN from_list([k \in 1..Len(data["Replacement Table"]) |->
                                    ReplacementEntry_from_dict(data["Replacement Table"][k])])
                 ELSE Ok(<<>>)
        modules == from_list([k \in 1..Len(data["Modules"]) |->
                                 Module_from_dict(data["Modules"][k])])
        bb == IF DOMAIN data["Blackboard"] # {}
              THEN Blackboard_from_dict(data["Blackboard"])
              ELSE Ok(EmptyBlackboard)
    IN  IF data["Version"] \notin SUPPORTED_VERSIONS THEN Raised
        ELSE IF data["Version"] > 1028
                  /\ ~\E c \in FileCategories : data["Category"] = FileCategory_name(c)
        THEN Raised
        ELSE IF ~nodes.ok \/ ~bb.ok \/ ~exprs.ok \/ ~table.ok \/ ~modules.ok THEN Raised
        ELSE Ok([version |-> data["Version"], filename |-> data["Filename"],
                 category |-> data["Category"], modules |-> modules.val,
                 blackboard_id |-> data["Blackboard ID"], blackboard |-> bb.val,
                 replacement_table |-> table.val, nodes |-> nodes.val,
                 expressions |-> IF DOMAIN data["Expressions"] # {}
                                 THEN <<exprs.val>> ELSE <<>>])

\* AINB.to_json: json.dumps(self.as_dict())
to_json(obj) == as_dict(obj)

\* AINB.from_json_text: cls.from_dict(json.loads(text))
from_json_text(text) == from_dict(text)

\* AINB.to_binary: the class defines no such attribute, the lookup raises
\* AttributeError.
to_binary(obj) == Raised

\* new = AINB.from_json_text(orig.to_json())
JsonRoundTrip ==
    /\ result = "returned"
    /\ trip = "none"
    /\ trip' = "json"
    /\ new' = from_json_text(to_json(self))
    /\ UNCHANGED <<enumVars, passVars, readVars, posVars, sideVars, dbVars, tableVars>>

\* new = AINB.from_binary(orig.to_binary()): the argument raises and
\* from_binary is not entered.
BinaryRoundTrip ==
    /\ result = "returned"
    /\ trip = "none"
    /\ trip' = "binary"
    /\ new' = to_binary(self)
    /\ UNCHANGED <<enumVars, passVars, readVars, posVars, sideVars, dbVars, tableVars>>

\* new = AINB.from_dict(data), for a dictionary that comes from outside.
FromDict ==
    /\ pc = "from_dict"
    /\ trip = "none"
    /\ trip' = "dict"
    /\ new' = from_dict(input)
    /\ UNCHANGED <<enumVars, passVars, readVars, posVars, sideVars, dbVars, tableVars>>

(***************************************************************************)
(* The caller changes the object AINB.read returned.  Node._read puts the  *)
(* entries of the file-level lists into the lists of the node              *)
(* (node.py:782-799), Attachment._read those of the property lists         *)
(* (attachment.py:37) and TransitionPlug._read the entry of the transition *)
(* table (node.py:447): an assignment to an attribute of such an entry is  *)
(* seen wherever the entry is held.                                        *)
(***************************************************************************)
\* The list with the name of the attachment id set.
RenameAttachment(list, id, name) ==
    [k \in 1..Len(list) |->
        IF list[k].id = id THEN [list[k] EXCEPT !.name = name] ELSE list[k]]

\* The property set with the default value of the property id of the type
\* set.
SetProperty(pset, param_type, id, value) ==
    [pset EXCEPT ![param_type] =
        [k \in 1..Len(pset[param_type]) |->
            IF pset[param_type][k].id = id
            THEN [pset[param_type][k] EXCEPT !.default_value = value]
            ELSE pset[param_type][k]]]

\* The attachments with the property set in each of them.
SetPropertyOfAttachments(list, param_type, id, value) ==
    [k \in 1..Len(list) |->
        [list[k] EXCEPT !.properties = SetProperty(list[k].properties, param_type, id, value)]]

\* node.attachments[k].name = "y"
ModifyAttachment ==
    /\ result = "returned"
    /\ trip = "none"
    /\ \E n \in 1..Len(self.nodes) : \E k \in 1..Len(self.nodes[n].attachments) :
          LET id == self.nodes[n].attachments[k].id
          IN  /\ self' = [self EXCEPT !.nodes =
                            [m \in 1..Len(self.nodes) |->
                                [self.nodes[m] EXCEPT !.attachments =
                                    RenameAttachment(self.nodes[m].attachments, id, <<121>>)]]]
              /\ attachments' = RenameAttachment(attachments, id, <<121>>)
              /\ modified' = n - 1
    /\ trip' = "modify"
    /\ UNCHANGED <<enumVars, passVars, posVars, input, cli, dbVars, attachment_indices, properties,
                   file, writable, pc, string_pool, queries, transitions, result, raised_in,
                   done, new>>

\* node.properties.get_properties(t)[k].default_value = 9
ModifyProperty ==
    /\ result = "returned"
    /\ trip = "none"
    /\ \E n \in 1..Len(self.nodes) : \E t \in ParamTypes :
          \E k \in 1..Len(self.nodes[n].properties[t]) :
              LET id == self.nodes[n].properties[t][k].id
              IN  /\ self' = [self EXCEPT !.nodes =
                                [m \in 1..Len(self.nodes) |->
                                    [self.nodes[m] EXCEPT
                                        !.properties =
                                            SetProperty(self.nodes[m].properties, t, id, 9),
                                        !.attachments =
                                            SetPropertyOfAttachments(self.nodes[m].attachments,
                                                                     t, id, 9)]]]
                  /\ attachments' = SetPropertyOfAttachments(attachments, t, id, 9)
                  /\ properties' = SetProperty(properties, t, id, 9)
                  /\ modified' = n - 1
    /\ trip' = "modify"
    /\ UNCHANGED <<enumVars, passVars, posVars, input, cli, dbVars, attachment_indices,
                   file, writable, pc, string_pool, queries, transitions, result, raised_in,
                   done, new>>

\* plug.transition.update_post_calc = not plug.transition.update_post_calc,
\* for a transition plug of the node; the plugs that took the same entry of
\* the transition table hold the same object.
ModifyTransition ==
    /\ result = "returned"
    /\ trip = "none"
    /\ \E n \in 1..Len(self.nodes) : \E k \in 1..Len(self.nodes[n].transition_plugs) :
          LET index == file.nodes[n].transition[k].index
              entry == [transitions[index + 1] EXCEPT
                           !.update_post_calc = ~transitions[index + 1].update_post_calc]
          IN  /\ self' = [self EXCEPT !.nodes =
                            [m \in 1..Len(self.nodes) |->
                                [self.nodes[m] EXCEPT !.transition_plugs =
                                    [j \in 1..Len(self.nodes[m].transition_plugs) |->
                                        IF file.nodes[m].transition[j].index = index
                                        THEN [self.nodes[m].transition_plugs[j] EXCEPT
                                                 !.transition = entry]
                                        ELSE self.nodes[m].transition_plugs[j]]]]]
              /\ transitions' = [transitions EXCEPT ![index + 1] = entry]
              /\ modified' = n - 1
    /\ trip' = "modify"
    /\ UNCHANGED <<enumVars, passVars, posVars, input, cli, dbVars, tableVars,
                   file, writable, pc, string_pool, queries, result, raised_in, done, new>>

Next ==
    \/ FromDict
    \/ ReadHeader
    \/ InitStringPool
    \/ ReadFilename
    \/ ReadCategory
    \/ \E p \in OpaquePhases : ReadSection(p)
    \/ ReadEnumTable
    \/ CheckWritable
    \/ ApplyPatch
    \/ EndPatches
    \/ ReadBlackboard
    \/ ReadExpressions
    \/ ReadProperties
    \/ ReadAttachments
    \/ ReadAttachmentIndices
    \/ ReadTransitions
    \/ ReadQueries
    \/ ReadModules
    \/ ReadBlackboardIds
    \/ ReadReplacements
    \/ ReadNodes
    \/ FixQueryIndices
    \/ Return
    \/ JsonRoundTrip
    \/ BinaryRoundTrip
    \/ ModifyAttachment
    \/ ModifyProperty
    \/ ModifyTransition

(***************************************************************************)
(* The inputs.  Each family of files varies one part of a well-formed      *)
(* file.  Bytes 0..3 of the buffer hold the blackboard id and the string   *)
(* pool runs from byte 4 to the end of the buffer.                         *)
(***************************************************************************)
\* A pool holding "" at offset 0, the default-case string at offset 1, "x"
\* at offset 11 and "AI" at offset 13.
NamedBytes == <<7, 0, 0, 0>> \o <<0>> \o DEFAULT_CASE \o <<0, 120, 0>> \o <<65, 73, 0>>

PlainBytes == [i \in 1..BufLen |-> 42]

BaseFile ==
    [magic |-> "AIB ", version |-> 1031, bytes |-> NamedBytes,
     string_pool_offset |-> 4, blackboard_id_offset |-> 0,
     enum_table |-> <<>>, module_paths |-> <<>>, replacements |-> <<>>,
     replacement_offset |-> 0, replaced |-> 0,
     filename_offset |-> 11, category_name_offset |-> 13, category |-> 0,
     transition_offset |-> 116, query_offset |-> 116, transition_table |-> <<>>,
     blackboard |-> [params |-> EmptyBlackboard, file_refs |-> <<>>],
     properties |-> EmptyPropertySet, attachments |-> <<>>, attachment_indices |-> <<>>,
     expressions |-> <<>>, query_table |-> <<>>, nodes |-> <<>>, corrupt |-> "none"]

HeaderFiles ==
    {[BaseFile EXCEPT !.magic = m, !.version = v] :
        m \in {"AIB ", "EXB "}, v \in {1028, 1031, 1032}}

\* The expression modules of the files: one without expressions, and one
\* whose expression has a setup and a main instruction.
ExpressionModules ==
    { <<[magic |-> "EXB ", version |-> 2, expressions |-> <<>>]>>,
      <<[magic |-> "EXB ", version |-> 2,
         expressions |-> <<[setup_command |-> <<1>>, main_command |-> <<2>>]>>]>> }

\* An entry of the transition table: its type and the offset of its name.
RawTransition(type, name) ==
    [transition_type |-> type, update_post_calc |-> type, command_name |-> name]

CorruptPhases ==
    OpaquePhases \cup {"string_pool", "enum_table", "blackboard", "expressions", "properties",
                       "attachments", "attachment_indices", "transitions",
                       "queries",
                       "modules",
                       "replacements", "nodes", "trailer"}

CorruptFiles ==
    {[BaseFile EXCEPT !.corrupt = p, !.module_paths = <<11>>, !.expressions = e,
                      !.transition_offset = 100,
                      !.transition_table = <<RawTransition(0, 11)>>] :
        p \in CorruptPhases, e \in ExpressionModules}

\* Patches of the files read whole: the value 258, or an unknown name, at the
\* start of the buffer, across the start of the pool, and at and past its end.
ReadEntries ==
    {[patch_offset |-> o, classname |-> c, value_name |-> "B"] :
        o \in {0, 1, BufLen - 1, BufLen}, c \in ClassNames}

EnumFiles ==
    {[BaseFile EXCEPT !.bytes = PlainBytes, !.module_paths = <<0>>, !.enum_table = t,
                      !.filename_offset = 0, !.category_name_offset = 0] :
        t \in PatchListsOf(ReadEntries)}

RawStateInfo == [desired_state |-> 11, unk04 |-> 3]

RawNode(flags, base, count) ==
    [type |-> UserDefined, index |-> 0, flags |-> flags, name |-> 11,
     state_info_offset |-> 0, node_param_offset |-> 400,
     base_query_index |-> base, query_count |-> count,
     base_attachment_index |-> 0, attachment_count |-> 0, props |-> NoSlices,
     state_info |-> RawStateInfo, child |-> <<>>, generic |-> <<>>, transition |-> <<>>,
     reserved |-> [t \in ReservedPlugTypes |-> <<>>]]

RawNodes == {RawNode(f, b, c) : f \in {0, 1}, b \in {0, 1}, c \in {0, 1}}

QueryFiles ==
    {[BaseFile EXCEPT !.nodes = [k \in DOMAIN ns |-> [ns[k] EXCEPT !.index = k - 1]],
                      !.query_table = qt] :
        ns \in UNION {[1..n -> RawNodes] : n \in 1..MaxNodes},
        qt \in UNION {[1..n -> {0, 1}] : n \in 0..MaxQueries}}

RawPlugs ==
    {[node_index |-> 1, name |-> 11, a_index |-> i, a_flag |-> f, a_val |-> v,
      b_index |-> 1 - i, b_flag |-> 32768 - f, b_val |-> v + 1] :
        i \in {0, 1}, f \in {0, 32768}, v \in {0, 1}}

PlugFiles ==
    {[BaseFile EXCEPT !.nodes =
        <<[RawNode(0, 0, 0) EXCEPT !.type = t, !.child = ps]>>] :
        t \in NodeTypes \cup {11},
        ps \in UNION {[1..n -> RawPlugs] : n \in 0..MaxPlugs}}

\* Files with a transition table of one or two entries below the query list,
\* at it or above it, whose node has transition plugs storing the indices
\* 0, 1 and 2.
TransitionFiles ==
    {[BaseFile EXCEPT !.transition_offset = o, !.transition_table = t,
        !.nodes = <<[RawNode(0, 0, 0) EXCEPT !.transition =
                        [k \in DOMAIN ix |-> [node_index |-> 1, index |-> ix[k]]]]>>] :
        o \in {100, 116, 120},
        t \in {<<RawTransition(0, 11)>>, <<RawTransition(0, 11), RawTransition(1, 0)>>},
        ix \in UNION {[1..n -> 0..2] : n \in 1..MaxPlugs}}

\* Files of both versions with every category word, one that is no member
\* of FileCategory included, and the category string "AI", "x" or one
\* outside the pool.
CategoryFiles ==
    {[BaseFile EXCEPT !.version = v, !.category = c, !.category_name_offset = o] :
        v \in SUPPORTED_VERSIONS, c \in 0..5, o \in {13, 11, 99}}

\* Files whose expression section starts with the magic and the version, or
\* with others.
ExpressionFiles ==
    {[BaseFile EXCEPT !.expressions = <<[magic |-> m, version |-> v, expressions |-> <<>>]>>] :
        m \in {"EXB ", "AIB "}, v \in 0..3}

\* Files that differ from a well-formed file in the index their nodes store,
\* with and without the module flag.
IndexFiles ==
    {[BaseFile EXCEPT !.nodes = ns] :
        ns \in UNION {[1..n -> {[RawNode(f, 0, 0) EXCEPT !.index = i] :
                                    f \in {0, 2}, i \in {-1, 0, 1}}] : n \in 1..MaxNodes}}

\* A plug record naming node 1 and the string "x".
RawPlug ==
    [node_index |-> 1, name |-> 11, a_index |-> 0, a_flag |-> 0, a_val |-> 0,
     b_index |-> 0, b_flag |-> 0, b_val |-> 0]

\* Files whose node declares plugs in one slot besides the Child slot.
SlotFiles ==
    {[BaseFile EXCEPT !.version = v, !.nodes =
        <<[RawNode(0, 0, 0) EXCEPT !.generic = g,
              !.reserved = [u \in ReservedPlugTypes |-> IF u = t THEN ps ELSE <<>>]]>>] :
        v \in SUPPORTED_VERSIONS, g \in {<<>>, <<RawPlug>>},
        t \in ReservedPlugTypes, ps \in {<<>>, <<RawPlug>>}}

\* Files of both versions whose nodes decode, or fail at their type, at
\* their name, at their state info or at a plug.
SeekFiles ==
    {[BaseFile EXCEPT !.version = v, !.nodes = ns] :
        v \in SUPPORTED_VERSIONS,
        ns \in UNION {[1..n -> {RawNode(0, 0, 0),
                               [RawNode(0, 0, 0) EXCEPT !.type = 11],
                               [RawNode(0, 0, 0) EXCEPT !.name = 99],
                               [RawNode(0, 0, 0) EXCEPT !.state_info.desired_state = 99],
                               [RawNode(0, 0, 0) EXCEPT !.generic = <<[RawPlug EXCEPT !.name = 99]>>]}] :
                          n \in 1..MaxNodes}}

\* The file with the state info of every node of a version below 0x407 at
\* an offset of its own behind the sections.
Located(f) ==
    IF f.version >= 1031 THEN f
    ELSE [f EXCEPT !.nodes =
            [k \in 1..Len(f.nodes) |->
                IF f.nodes[k].state_info_offset = 0
                THEN [f.nodes[k] EXCEPT !.state_info_offset = 600 + 20 * k]
                ELSE f.nodes[k]]]

\* Files of both versions whose nodes have a state-info offset of 0 or of
\* 600, where a state info is.
StateFiles ==
    {[BaseFile EXCEPT !.version = v, !.nodes = ns] :
        v \in SUPPORTED_VERSIONS,
        ns \in UNION {[1..n -> {[RawNode(0, 0, 0) EXCEPT !.index = i,
                                                        !.state_info_offset = o] :
                                    i \in {0, 1}, o \in {0, 600}}] :
                          n \in 1..MaxNodes}}

\* The replacement entries of the files, one of each type.
RawReplacements ==
    {[type |-> t, node_index |-> 0, replace_index |-> 1, new_index |-> 2] : t \in 0..2}

\* The replacement sections of the files: none (a replacement offset of 0
\* and no entry), or a table of one entry at a non-zero offset, marked as
\* already processed or not.
ReplacementSections ==
    {[table |-> <<>>, offset |-> 0, replaced |-> 0]}
      \cup {[table |-> <<r>>, offset |-> 1, replaced |-> p] :
                r \in RawReplacements, p \in {0, 1}}

\* Graphs with and without modules, a replacement table, expressions and
\* nodes, in both versions.
GraphFiles ==
    {[BaseFile EXCEPT !.version = v, !.module_paths = mp, !.replacements = rt.table,
                      !.replacement_offset = rt.offset, !.replaced = rt.replaced,
                      !.expressions = e, !.nodes = ns] :
        v \in SUPPORTED_VERSIONS,
        mp \in {<<>>, <<11>>},
        rt \in ReplacementSections,
        e \in {<<>>} \cup ExpressionModules,
        ns \in {<<>>, <<RawNode(4, 0, 0)>>}}

\* A parameter descriptor: the halves of its flags word, the offset of its
\* notes, the word of its default value.
RawBBParam(lo, hi, notes, value) == [lo |-> lo, hi |-> hi, notes |-> notes, value |-> value]

\* The blackboard whose only parameter is p, of type t.
OneParam(t, p) == [EmptyBlackboard EXCEPT ![t] = <<p>>]

\* Files with one blackboard parameter, a string, an integer or a pointer.
\* The name offset is inside the pool (11, 13) or outside (40); the upper
\* half of the flags word is clear, carries a flag bit (64), bit 16 of the
\* name offset (1), or the file reference 0 (32768) with a flag bit (32832);
\* the notes, the default string and the filename of the file reference are
\* inside (11, 13) or outside the pool (99, 50, 77).  One file has two
\* parameters of one type.
BlackboardFiles ==
    {[BaseFile EXCEPT !.version = v,
                      !.blackboard = [params |-> OneParam(t, RawBBParam(lo, hi, notes, value)),
                                      file_refs |-> <<ref>>]] :
        v \in SUPPORTED_VERSIONS, t \in {BBParamType_String, 1, BBParamType_VoidPtr},
        lo \in {11, 13, 40}, hi \in {0, 64, 1, 32768, 32832}, notes \in {11, 99},
        value \in {13, 50}, ref \in {11, 77}}
      \cup {[BaseFile EXCEPT !.blackboard =
                [params |-> [EmptyBlackboard EXCEPT ![1] = <<RawBBParam(11, 0, 13, 7),
                                                             RawBBParam(13, 64, 11, 8)>>],
                 file_refs |-> <<>>]]}

\* A property of the file: the offset of its name and its value.
RawProperty(value) == [name |-> 11, value |-> value]

\* The slices of a record whose Int properties are count entries from
\* base_index on.
IntSlice(base_index, count) ==
    [NoSlices EXCEPT ![0] = [base_index |-> base_index, count |-> count]]

\* An attachment of the file with the Int properties of the slice.
RawAttachment(base_index, count) == [name |-> 13, props |-> IntSlice(base_index, count)]

\* A node of the file with count attachments from base on and the Int
\* properties of the slice.
SliceNode(index, base, count, slice) ==
    [RawNode(0, 0, 0) EXCEPT !.index = index, !.base_attachment_index = base,
                             !.attachment_count = count, !.props = slice]

SliceNodes(index) ==
    { SliceNode(index, 0, 1, IntSlice(0, 1)), SliceNode(index, 1, 1, IntSlice(0, 2)),
      SliceNode(index, 0, 2, IntSlice(1, 1)) }

\* Files with up to two Int properties, one or two attachments, an
\* attachment index table and one or two nodes; the (base index, count)
\* pairs of the attachments and of the nodes stay inside the tables they
\* slice, end at their end, or reach past it, and an attachment index names
\* an attachment or none.
SliceFiles ==
    {[BaseFile EXCEPT !.properties = [EmptyPropertySet EXCEPT ![0] = ps],
                      !.attachments = as, !.attachment_indices = ix, !.nodes = ns] :
        ps \in {<<>>, <<RawProperty(5)>>, <<RawProperty(5), RawProperty(6)>>},
        as \in {<<RawAttachment(0, 1)>>, <<RawAttachment(1, 1)>>, <<RawAttachment(0, 2)>>,
                <<RawAttachment(0, 1), RawAttachment(0, 2)>>},
        ix \in {<<>>, <<0>>, <<0, 0>>, <<0, 1>>, <<2>>},
        ns \in {<<a>> : a \in SliceNodes(0)}
                 \cup {<<a, b>> : a \in SliceNodes(0), b \in SliceNodes(1)}}

\* Files of two nodes with one transition plug each; the plugs name the same
\* entry of the transition table or different ones.
SharedFiles ==
    {[BaseFile EXCEPT !.transition_offset = 100,
        !.transition_table = <<RawTransition(0, 11), RawTransition(1, 0)>>,
        !.nodes = <<[RawNode(0, 0, 0) EXCEPT !.transition = <<[node_index |-> 1, index |-> i]>>],
                    [RawNode(0, 0, 0) EXCEPT !.index = 1,
                                             !.transition = <<[node_index |-> 0, index |-> j]>>]>>] :
        i \in {0, 1}, j \in {0, 1}}

\* Files whose filename offset names the first byte of the pool, its last
\* byte, the byte after its end, and a byte far outside.
FilenameFiles ==
    {[BaseFile EXCEPT !.version = v, !.filename_offset = o] :
        v \in SUPPORTED_VERSIONS, o \in {0, 15, 16, 99}}

\* The dictionary of a plug of the slot named key: a transition to node 1,
\* or a plug naming node 1 and the string "x".
PlugDict(key) ==
    IF key = PlugType_name(PlugType_Transition)
    THEN ("Node Index" :> 1) @@ ("Transition Type" :> 1) @@ ("Update Post Calc" :> FALSE)
    ELSE ("Node Index" :> 1) @@ ("Name" :> <<120>>)

\* The dictionary of a UserDefined node, with the plugs ps under key, or
\* with no plugs.
NodeDict(index, key, ps) ==
    ("Node Type" :> NodeType_name(UserDefined))
      @@ ("Node Index" :> index)
      @@ ("Name" :> <<120>>)
      @@ ("Flags" :> get_flag_list(0))
      @@ ("Queries" :> <<>>)
      @@ ("Attachments" :> <<>>)
      @@ ("Properties" :> EmptyDict)
      @@ ("Plugs" :> IF key = "none" THEN EmptyDict ELSE key :> ps)

\* Dictionaries as json.loads hands them to from_dict: a graph of one node
\* in a supported or an unsupported version, the node at its position or
\* not, with or without plugs in one of its slots, with or without a
\* replacement entry.
Dicts ==
    {("Version" :> v) @@ ("Filename" :> <<120>>) @@ ("Category" :> FileCategory_name(0))
        @@ ("Blackboard ID" :> 7)
        @@ ("Blackboard" :> EmptyDict)
        @@ ("Nodes" :> <<NodeDict(i, key, IF n = 0 THEN <<>> ELSE <<PlugDict(key)>>)>>)
        @@ ("Expressions" :> EmptyDict)
        @@ ("Replacement Table" :> rt)
        @@ ("Modules" :> <<>>) :
        v \in SUPPORTED_VERSIONS \cup {1032}, i \in {0, 1},
        key \in {"none"} \cup {PlugType_name(t) : t \in PlugTypes},
        n \in {0, 1},
        rt \in {<<>>} \cup {<<ReplacementEntry_as_dict(r)>> : r \in RawReplacements}}

Init ==
    /\ \/ /\ file \in {Located(f) : f \in EnumFiles}
          /\ writable \in BOOLEAN
          /\ ENUM_DB \in EnumDbs
          /\ input = NoData
          /\ pc = "header"
       \/ /\ file = NoFile
          /\ writable = FALSE
          /\ ENUM_DB = GameDb
          /\ input \in Dicts
          /\ pc = "from_dict"
       \/ /\ file \in {Located(f) :
                          f \in HeaderFiles \cup CorruptFiles \cup QueryFiles \cup PlugFiles
                                 \cup GraphFiles \cup SlotFiles \cup IndexFiles
                                 \cup ExpressionFiles \cup TransitionFiles \cup CategoryFiles
                                 \cup SeekFiles \cup BlackboardFiles \cup FilenameFiles
                                 \cup SliceFiles \cup SharedFiles}
                        \cup StateFiles
          /\ writable = FALSE
          /\ ENUM_DB = GameDb
          /\ input = NoData
          /\ pc = "header"
    /\ stream = IF file = NoFile THEN <<>> ELSE file.bytes
    /\ enums_to_resolve = <<>>
    /\ enum_i = 0
    /\ warnings = 0
    /\ n_writes = 0
    /\ pass = 1
    /\ after_first = <<>>
    /\ string_pool = <<>>
    /\ self = NoSelf
    /\ queries = <<>>
    /\ transitions = <<>>
    /\ result = "running"
    /\ raised_in = "none"
    /\ done = <<>>
    /\ trip = "none"
    /\ new = NoNew
    /\ cursor = 0
    /\ log = <<>>
    /\ exb_cursor = 0
    /\ node_calls = <<>>
    /\ cli = NoCli
    /\ attachments = <<>>
    /\ attachment_indices = <<>>
    /\ properties = [t \in 0..5 |-> <<>>]
    /\ modified = -1
    /\ db_log = <<>>
    /\ offsets = <<>>
    /\ graph = NoGraph

Spec == Init /\ [][Next]_vars

(***************************************************************************)
(* Properties of AINB.read.                                                *)
(***************************************************************************)
Completed(p) == \E k \in 1..Len(done) : done[k] = p

\* The phases of AINB.read that run after the enum resolution.
LaterPhases == {PhaseOrder[k] : k \in (PhaseIndex("enum_apply") + 1)..Len(PhaseOrder)}

\* The bytes after the first n patches of a table are applied in order.
RECURSIVE PatchedBy(_, _, _, _)
PatchedBy(bytes, table, db, n) ==
    IF n = 0 THEN bytes
    ELSE process_enum_resolve(db, table[n], PatchedBy(bytes, table, db, n - 1)).stream

FullyPatched == PatchedBy(file.bytes, file.enum_table, ENUM_DB, Len(file.enum_table))

\* The string pool as the patched buffer holds it.
PatchedPool == Slice(FullyPatched, file.string_pool_offset, Len(FullyPatched))

\* The string pool as the buffer held it before any patch.
OriginalPool == Slice(file.bytes, file.string_pool_offset, Len(file.bytes))

\* C5 as stated: the patch list is applied before any later section is read,
\* and every value decoded afterwards, a string of the pool included, is the
\* value the patched bytes hold.
C5_AllValuesPatched ==
    /\ (pc \in LaterPhases /\ result # "raised") =>
          /\ enums_to_resolve = file.enum_table
          /\ enum_i = Len(enums_to_resolve)
          /\ stream = FullyPatched
    /\ Completed("blackboard_ids") =>
          self.blackboard_id = read_u32(FullyPatched, file.blackboard_id_offset)
    /\ Completed("modules") =>
          \A k \in 1..Len(self.modules) :
              self.modules[k] = get_string(PatchedPool, file.module_paths[k])

\* C5 amended: the whole patch list is read and applied before any later
\* section is read, and a value decoded from the stream afterwards is the
\* value the patched bytes hold; a string is resolved through the pool, which
\* was copied before the patches, and is the one the unpatched bytes hold.
C5_StreamValuesPatched ==
    /\ (pc \in LaterPhases /\ result # "raised") =>
          /\ enums_to_resolve = file.enum_table
          /\ enum_i = Len(enums_to_resolve)
          /\ stream = FullyPatched
    /\ Completed("blackboard_ids") =>
          self.blackboard_id = read_u32(FullyPatched, file.blackboard_id_offset)
    /\ Completed("modules") =>
          \A k \in 1..Len(self.modules) :
              self.modules[k] = get_string(OriginalPool, file.module_paths[k])

\* A file was read whole whose patches changed both the blackboard id and a
\* byte of the string pool.
C5_Witness ==
    /\ result = "returned"
    /\ n_writes > 0
    /\ self.blackboard_id # read_u32(file.bytes, file.blackboard_id_offset)
    /\ self.blackboard_id = read_u32(stream, file.blackboard_id_offset)
    /\ PatchedPool # OriginalPool

\* C6: with a non-empty enum-resolve table and a stream that is not writable,
\* AINB.read raises at the writability check, has written no byte and
\* returns no object; with an empty table no byte is ever written and the
\* check does not raise, whatever the stream.
C6_WritableRequired ==
    /\ (file # NoFile /\ Len(file.enum_table) > 0 /\ ~writable) =>
          /\ n_writes = 0
          /\ stream = file.bytes
          /\ result # "returned"
          /\ (Completed("enum_table") /\ pc # "enum_check") =>
                (result = "raised" /\ raised_in = "enum_check")
    /\ (file # NoFile /\ Len(file.enum_table) = 0) =>
          /\ n_writes = 0
          /\ stream = file.bytes
          /\ raised_in # "enum_check"

\* The read of a file with patches on a read-only stream has raised.
C6_Witness ==
    /\ ~writable
    /\ Len(enums_to_resolve) > 0
    /\ result = "raised"
    /\ raised_in = "enum_check"

\* The read of a file without patches on a read-only stream has returned.
C6_ReadOnlyReturns ==
    /\ ~writable
    /\ file # NoFile
    /\ Len(file.enum_table) = 0
    /\ result = "returned"

\* C7: AINB.read returns an object only after every phase, the node decode
\* and the query fix-up included, has completed without raising; an
\* exception of any phase ends the call and no object is returned.
C7_NoPartialObject ==
    /\ result = "returned" =>
          /\ raised_in = "none"
          /\ file.corrupt = "none"
          /\ done = SubSeq(PhaseOrder, 1, Len(PhaseOrder) - 1)
          /\ Len(self.nodes) = Len(file.nodes)
    /\ raised_in # "none" => (result = "raised" /\ pc = "done")

\* A file with nodes has been read whole.
C7_Witness ==
    /\ result = "returned"
    /\ Len(self.nodes) = MaxNodes
    /\ Completed("fix_queries")

\* C8: after a successful read every entry of every node's queries list is a
\* position of the node list, and the node there is a query node.
C8_QueriesAreQueryNodes ==
    result = "returned" =>
        \A n \in 1..Len(self.nodes) :
            \A k \in 1..Len(self.nodes[n].queries) :
                LET q == self.nodes[n].queries[k]
                IN  /\ q \in 0..(Len(self.nodes) - 1)
                    /\ is_query(self.nodes[q + 1].flags)

\* A returned node whose query entry was rewritten to another position.
C8_Witness ==
    /\ result = "returned"
    /\ Len(self.nodes) = 2
    /\ self.nodes[1].queries = <<1>>
    /\ file.query_table[file.nodes[1].base_query_index + 1] = 0

\* C9: in a decoded graph the child plug at position k of an S32, F32 or
\* String selector is the default exactly when k is the last position.
C9_LastChildIsDefault ==
    result = "returned" =>
        \A n \in 1..Len(self.nodes) :
            self.nodes[n].type \in SelectorTypes =>
                \A k \in 1..Len(self.nodes[n].child_plugs) :
                    self.nodes[n].child_plugs[k].is_default
                        <=> (k = Len(self.nodes[n].child_plugs))

\* A returned selector with as many child plugs as the model allows.
C9_Witness ==
    /\ result = "returned"
    /\ Len(self.nodes) = 1
    /\ self.nodes[1].type = Element_S32Selector
    /\ Len(self.nodes[1].child_plugs) = MaxPlugs

\* The last child plug of the raw selector node holds something else than
\* the sentinel of its class: a non-zero word for S32, a string of the pool
\* other than the default-case string for F32 and String.
BadDefault(rn, pool) ==
    /\ rn.type \in SelectorTypes
    /\ Len(rn.child) > 0
    /\ LET last == rn.child[Len(rn.child)]
           off == IF rn.type = Element_F32Selector
                  THEN last.a_index + 65536 * (last.a_flag % 32768)
                  ELSE last.a_val
       IN  IF rn.type = Element_S32Selector THEN last.a_val # 0
           ELSE /\ (rn.type = Element_F32Selector => last.a_flag < 32768)
                /\ InPool(pool, off)
                /\ get_string(pool, off) # DEFAULT_CASE

\* C10: a file in which the last child plug of a selector does not hold the
\* sentinel of the default case is not decoded: the read raises when it
\* reaches the node.
C10_BadDefaultFails ==
    (file # NoFile /\ \E n \in 1..Len(file.nodes) : BadDefault(file.nodes[n], OriginalPool)) =>
        /\ result # "returned"
        /\ (Completed("replacements") /\ pc # "nodes") =>
              (result = "raised" /\ raised_in = "nodes")

\* The read has failed at a selector whose last child plug is no default.
C10_Witness ==
    /\ result = "raised"
    /\ raised_in = "nodes"
    /\ \E n \in 1..Len(file.nodes) :
          /\ file.nodes[n].type = Element_F32Selector
          /\ BadDefault(file.nodes[n], OriginalPool)

\* C1: for every object AINB.read returns, from_json_text(to_json(G)) does
\* not raise and gives an object whose as_dict equals as_dict of G; modules,
\* a replacement table, state info and expression instructions included.
C1_JsonRoundTrip ==
    trip = "json" => (new.ok /\ as_dict(new.val) = as_dict(self))

\* C2: for every object AINB.read returns, encoding it with to_binary and
\* decoding the bytes again gives an object whose as_dict equals as_dict of
\* the first.
C2_BinaryRoundTrip ==
    trip = "binary" => (new.ok /\ as_dict(new.val) = as_dict(self))

\* The literal of the flagged slot of a decoded child plug is ignored: the
\* blackboard index is the one stored, the condition (or bound) has its
\* default value and the JSON view of the plug has no key for it.
FlaggedSlotIgnored(type, raw, plug, is_last) ==
    CASE type = Element_S32Selector ->
            HighBit(raw.a_flag) =>
               /\ plug.blackboard_index = raw.a_index
               /\ plug.condition = 0
               /\ "Condition" \notin DOMAIN Plug_as_dict(plug)
      [] type = Element_StringSelector ->
            HighBit(raw.a_flag) =>
               /\ plug.blackboard_index = raw.a_index
               /\ plug.condition = <<>>
               /\ "Condition" \notin DOMAIN Plug_as_dict(plug)
      [] type = Element_F32Selector ->
            ~is_last =>
               /\ HighBit(raw.a_flag) =>
                     /\ plug.blackboard_index_min = raw.a_index
                     /\ plug.condition_min = 0
                     /\ "Condition Min" \notin DOMAIN Plug_as_dict(plug)
               /\ HighBit(raw.b_flag) =>
                     /\ plug.blackboard_index_max = raw.b_index
                     /\ plug.condition_max = 0
                     /\ "Condition Max" \notin DOMAIN Plug_as_dict(plug)

\* C11: in a decoded graph, every S32, F32 and String selector child plug
\* whose flag word has the high bit set records the blackboard index, keeps
\* the default condition (or bound) and shows no condition in its JSON view.
C11_FlaggedConditionIgnored ==
    result = "returned" =>
        \A n \in 1..Len(self.nodes) :
            self.nodes[n].type \in SelectorTypes =>
                \A k \in 1..Len(self.nodes[n].child_plugs) :
                    FlaggedSlotIgnored(self.nodes[n].type, file.nodes[n].child[k],
                                       self.nodes[n].child_plugs[k],
                                       k = Len(self.nodes[n].child_plugs))

\* The reserved slots of a node are empty and its JSON view has no key for
\* them.
ReservedSlotsEmpty(node) ==
    \A t \in ReservedPlugTypes :
        /\ get_plugs(node, t) = <<>>
        /\ PlugType_name(t) \notin DOMAIN Node_as_dict(node)["Plugs"]

\* The file declares a plug in a reserved slot of one of its nodes.
FileDeclaresReserved ==
    /\ file # NoFile
    /\ \E n \in 1..Len(file.nodes) :
          \E t \in ReservedPlugTypes : Len(file.nodes[n].reserved[t]) > 0

\* The dictionary lists a plug under a reserved key of one of its nodes.
DictListsReserved ==
    /\ input # NoData
    /\ \E n \in 1..Len(input["Nodes"]) :
          \E t \in ReservedPlugTypes :
              /\ PlugType_name(t) \in DOMAIN input["Nodes"][n]["Plugs"]
              /\ Len(input["Nodes"][n]["Plugs"][PlugType_name(t)]) > 0

\* C12: plug slots 1, 6, 7, 8 and 9 of every node built by AINB.read or by
\* from_dict are empty lists and the JSON view of the node has no key for
\* them; a file that declares a plug in one of them is not decoded (the
\* node section raises) and a dictionary that lists a plug under one of
\* them is not loaded.
C12_ReservedSlotsRejected ==
    /\ result = "returned" =>
          \A n \in 1..Len(self.nodes) : ReservedSlotsEmpty(self.nodes[n])
    /\ (trip = "dict" /\ new.ok) =>
          \A n \in 1..Len(new.val.nodes) : ReservedSlotsEmpty(new.val.nodes[n])
    /\ FileDeclaresReserved => (result # "returned" /\ ~Completed("nodes"))
    /\ (DictListsReserved /\ trip = "dict") => ~new.ok

\* A file whose node declares a plug in a reserved slot has been rejected
\* by the node section.
C12_Witness ==
    /\ FileDeclaresReserved
    /\ result = "raised"
    /\ raised_in = "nodes"

\* The warning has been emitted.
Warned(w) == \E k \in 1..Len(log) : log[k] = w

\* The replacement table of an object and its JSON view agree with its
\* version.
TableMatchesVersion(obj) ==
    /\ Len(obj.replacement_table) > 0 => obj.version >= 1031
    /\ "Replacement Table" \in DOMAIN as_dict(obj) <=> obj.version >= 1031

\* C13: an object built by AINB.read or by from_dict has a non-empty
\* replacement table only in version 0x407 or later, and its JSON view has
\* the key "Replacement Table" exactly then; for a version 0x404 file a
\* non-zero replacement offset emits a warning, does not end the read and
\* leaves the table empty.
C13_ReplacementsNeedVersion ==
    /\ result = "returned" => TableMatchesVersion(self)
    /\ (trip # "none" /\ new.ok) => TableMatchesVersion(new.val)
    /\ (file # NoFile /\ file.version = 1028 /\ file.replacement_offset # 0) =>
          /\ raised_in # "replacements"
          /\ Len(self.replacement_table) = 0
          /\ Completed("replacements") =>
                Warned(ParseWarning("replacement table unsupported", -1))

\* A version 0x404 file with a replacement table at a non-zero offset has
\* been read whole.
C13_Witness ==
    /\ file # NoFile
    /\ file.version = 1028
    /\ file.replacement_offset # 0
    /\ Len(file.replacements) > 0
    /\ result = "returned"

\* The dictionary stores, for one of its nodes, an index that is not the
\* position of the node.
DictIndexMismatch ==
    /\ input # NoData
    /\ \E n \in 1..Len(input["Nodes"]) : input["Nodes"][n]["Node Index"] # n - 1

\* C14: for the node decoded at position i of a file, the index it stores
\* is i or a warning naming position i has been emitted, and a stored index
\* that differs does not end the read; a dictionary whose node at position i
\* has another "Node Index" is not loaded.
C14_NodeIndexIdentity ==
    /\ Completed("nodes") =>
          \A n \in 1..Len(self.nodes) :
              \/ self.nodes[n].index = n - 1
              \/ Warned(ParseWarning("inconsistent node index", n - 1))
    /\ (file # NoFile /\ file \in IndexFiles) => result # "raised"
    /\ (trip = "dict" /\ DictIndexMismatch) => ~new.ok
    /\ (trip = "dict" /\ new.ok) =>
          \A n \in 1..Len(new.val.nodes) : new.val.nodes[n].index = n - 1

\* A file whose second node stores the index of the first has been read
\* whole.
C14_Witness ==
    /\ result = "returned"
    /\ Len(self.nodes) = 2
    /\ self.nodes[2].index = 0
    /\ Warned(ParseWarning("inconsistent node index", 1))

\* C15: AINB.read ends with a fatal error, having read the first 8 bytes at
\* most and before any section, when the magic is not "AIB " or the version
\* is neither 0x404 nor 0x407; the decode of the expression section ends
\* likewise, within the first 8 bytes of the section, when its magic is not
\* "EXB " or its version is neither 1 nor 2; from_dict does not load a
\* dictionary whose "Version" is not supported.
C15_MagicAndVersionChecked ==
    /\ (file # NoFile /\ pc # "header"
           /\ (file.magic # "AIB " \/ file.version \notin SUPPORTED_VERSIONS)) =>
          /\ result = "raised"
          /\ raised_in = "header"
          /\ cursor <= 8
          /\ done = <<>>
          /\ string_pool = <<>>
    /\ (file # NoFile /\ Len(file.expressions) > 0 /\ pc # "expressions"
           /\ Completed("blackboard")
           /\ (file.expressions[1].magic # "EXB "
                  \/ file.expressions[1].version \notin EXB_SUPPORTED_VERSIONS)) =>
          /\ result = "raised"
          /\ raised_in = "expressions"
          /\ exb_cursor <= 8
          /\ Len(self.expressions) = 0
    /\ (trip = "dict" /\ input["Version"] \notin SUPPORTED_VERSIONS) => ~new.ok

\* The read of a file of version 0x408 has raised after the version word.
C15_Witness ==
    /\ file # NoFile
    /\ file.magic = "AIB "
    /\ file.version = 1032
    /\ result = "raised"
    /\ cursor = 8

\* The read of a file whose expression section has version 3 has raised
\* after the version word of the section.
C15_ExpressionWitness ==
    /\ file # NoFile
    /\ Len(file.expressions) > 0
    /\ file.expressions[1].version = 3
    /\ raised_in = "expressions"
    /\ exb_cursor = 8

\* The transition table the node section is handed: the table of the file,
\* or none when the section is skipped.
TableRead ==
    IF file.transition_offset < file.query_offset
    THEN [k \in 1..Len(file.transition_table) |->
             read_transition(file.transition_table[k], OriginalPool).val]
    ELSE <<>>

\* A transition plug of the file stores an index past the end of the table.
IndexPastTable ==
    /\ file # NoFile
    /\ \E n \in 1..Len(file.nodes) :
          \E k \in 1..Len(file.nodes[n].transition) :
              file.nodes[n].transition[k].index >= Len(TableRead)

\* C16: every transition plug of a decoded node carries the entry of the
\* transition table at the index the plug stores; a file with a plug whose
\* index is not below the length of the table, which is 0 when the table is
\* skipped because transition_offset >= query_offset, is not decoded: the
\* node section raises.  The entries are those of the table as decoded:
\* the comparison is made before the caller changes the object.
C16_TransitionPlugsInTable ==
    /\ (Completed("nodes") /\ modified = -1) =>
          \A n \in 1..Len(self.nodes) :
              /\ Len(self.nodes[n].transition_plugs) = Len(file.nodes[n].transition)
              /\ \A k \in 1..Len(self.nodes[n].transition_plugs) :
                    /\ file.nodes[n].transition[k].index < Len(TableRead)
                    /\ self.nodes[n].transition_plugs[k].transition
                          = TableRead[file.nodes[n].transition[k].index + 1]
    /\ IndexPastTable =>
          /\ result # "returned"
          /\ ~Completed("nodes")
          /\ (Completed("replacements") /\ pc # "nodes") =>
                (result = "raised" /\ raised_in = "nodes")

\* A node with a transition plug for each of the two entries of the table
\* has been decoded.
C16_Witness ==
    /\ result = "returned"
    /\ Len(transitions) = 2
    /\ Len(self.nodes) = 1
    /\ Len(self.nodes[1].transition_plugs) = 2
    /\ self.nodes[1].transition_plugs[1].transition = transitions[2]
    /\ self.nodes[1].transition_plugs[2].transition = transitions[1]

\* The read has failed at a transition plug although the file holds a
\* table, because the table was skipped.
C16_SkippedWitness ==
    /\ IndexPastTable
    /\ file.transition_offset >= file.query_offset
    /\ raised_in = "nodes"

\* The category word of the file does not correspond to its category
\* string: it names another category, or none.
CategoryMismatch ==
    /\ file # NoFile
    /\ InPool(OriginalPool, file.category_name_offset)
    /\ \/ file.category \notin FileCategories
       \/ get_string(OriginalPool, file.category_name_offset) # FileCategory_name(file.category)

\* C17: for a version 0x407 file whose category word does not correspond to
\* its category string, whatever the word, one that names no category
\* included, the read emits a warning and goes on to the next section.
C17_CategoryMismatchWarns ==
    (CategoryMismatch /\ file.version = 1031 /\ Completed("offsets") /\ pc # "category") =>
        /\ raised_in # "category"
        /\ Completed("category")
        /\ Warned(ParseWarning("category mismatch", -1))

\* Where the cursor is when Node._read, called at start, ends at the given
\* statement: after the last field read outside a scope, a scope that raised
\* having put the cursor back to where it was entered.
CursorAfter(start, at, version) ==
    CASE at = "return" -> start + NodeSize(version)
      [] at = "type" -> start + 2
      [] at = "name" -> start + 12
      [] at = "state_info" -> start + NodeSize(version) - 16
      [] at = "attachments" -> start + NodeSize(version)
      [] at = "plugs" -> start + NodeSize(version)

\* C18: every scoped positional read of Node._read restores the cursor.
\* The call for the node at position i starts at the record of that node
\* and, when it returns, leaves the cursor 0x3C bytes (version 0x407) or
\* 0x38 bytes (version 0x404) further, at the record of node i + 1; when it
\* raises inside a scope, the cursor is where the scope was entered.  After
\* the node section the cursor is at the end of the last record.
C18_CursorRestored ==
    /\ \A k \in 1..Len(node_calls) :
          /\ node_calls[k].start = 116 + (k - 1) * NodeSize(self.version)
          /\ node_calls[k].end
                = CursorAfter(node_calls[k].start, node_calls[k].at, self.version)
          /\ k < Len(node_calls) => node_calls[k].at = "return"
    /\ Completed("nodes") =>
          /\ Len(node_calls) = Len(file.nodes)
          /\ cursor = 116 + Len(file.nodes) * NodeSize(self.version)

\* Two nodes of a version 0x404 file, each with a state info read in a
\* scope, have been decoded.
C18_Witness ==
    /\ result = "returned"
    /\ self.version = 1028
    /\ Len(node_calls) = 2
    /\ node_calls[2].start = 116 + 56
    /\ cursor = 116 + 2 * 56

\* The read has failed inside the scope of the plugs of the second node.
C18_ErrorWitness ==
    /\ raised_in = "nodes"
    /\ Len(node_calls) = 2
    /\ node_calls[2].at = "plugs"

(***************************************************************************)
(* String-pool containment.                                                *)
(***************************************************************************)
\* The string offsets the decode of a blackboard parameter of type t
\* resolves: its name in the low 22 bits of the flags word, its notes, its
\* default value when it is a string, the filename of its file reference
\* when it has one.
ParamOffsets(raw, t, refs) ==
    {raw.lo + 65536 * (raw.hi % 64), raw.notes}
      \cup (IF t = BBParamType_String THEN {raw.value} ELSE {})
      \cup (IF HighBit(raw.hi) /\ (raw.hi \div 256) % 128 < Len(refs)
            THEN {refs[((raw.hi \div 256) % 128) + 1]} ELSE {})

\* Every string offset of the blackboard section lies inside the pool.
BlackboardInPool ==
    \A t \in BBParamTypes : \A k \in 1..Len(file.blackboard.params[t]) :
        \A o \in ParamOffsets(file.blackboard.params[t][k], t, file.blackboard.file_refs) :
            InPool(OriginalPool, o)

\* The parameters of the object carry the strings at the offsets of their
\* descriptors.
BlackboardStrings ==
    \A t \in BBParamTypes :
        /\ Len(self.blackboard[t]) = Len(file.blackboard.params[t])
        /\ \A k \in 1..Len(file.blackboard.params[t]) :
              LET raw == file.blackboard.params[t][k]
                  param == self.blackboard[t][k]
              IN  /\ param.name = get_string(OriginalPool, raw.lo + 65536 * (raw.hi % 64))
                  /\ param.notes = get_string(OriginalPool, raw.notes)
                  /\ t = BBParamType_String =>
                        param.default_value = get_string(OriginalPool, raw.value)
                  /\ HighBit(raw.hi) =>
                        param.file_ref =
                          get_string(OriginalPool,
                                     file.blackboard.file_refs[((raw.hi \div 256) % 128) + 1])

\* The name offsets of the node, of its state info in a file below 0x407,
\* and of its child and generic plugs lie inside the pool, and the node of
\* the object carries the strings at them.
NodeStringsInPool(rn, node) ==
    /\ InPool(OriginalPool, rn.name)
    /\ node.name = get_string(OriginalPool, rn.name)
    /\ file.version < 1031 =>
          /\ InPool(OriginalPool, StateRecord(rn, file.version).desired_state)
          /\ node.state_info[1].desired_state
                = get_string(OriginalPool, StateRecord(rn, file.version).desired_state)
    /\ \A k \in 1..Len(rn.child) :
          /\ InPool(OriginalPool, rn.child[k].name)
          /\ node.child_plugs[k].name = get_string(OriginalPool, rn.child[k].name)
    /\ \A k \in 1..Len(rn.generic) :
          /\ InPool(OriginalPool, rn.generic[k].name)
          /\ node.generic_plugs[k].name = get_string(OriginalPool, rn.generic[k].name)

\* C20: every string offset resolved during a successful decode (filename,
\* category name, node and plug names, notes, and blackboard parameter
\* names taken from the low 22 bits of the descriptor word) lies inside the
\* string pool installed from string_pool_offset to the end of the buffer,
\* and the decoded object carries the string at that offset; an offset
\* outside the pool makes the decode fail in the step that resolves it, and
\* the blackboard step fails for no other reason than such an offset or a
\* section that cannot be read.
C20_StringOffsetsInPool ==
    /\ Completed("string_pool") =>
          string_pool = Slice(file.bytes, file.string_pool_offset, Len(file.bytes))
    /\ Completed("filename") =>
          /\ InPool(string_pool, file.filename_offset)
          /\ self.filename = get_string(string_pool, file.filename_offset)
    /\ Completed("category") =>
          /\ InPool(string_pool, file.category_name_offset)
          /\ self.category = get_string(string_pool, file.category_name_offset)
    /\ Completed("blackboard") => (BlackboardInPool /\ BlackboardStrings)
    /\ Completed("nodes") =>
          \A k \in 1..Len(file.nodes) : NodeStringsInPool(file.nodes[k], self.nodes[k])
    /\ (Completed("string_pool") /\ ~InPool(string_pool, file.filename_offset)
           /\ pc # "filename") =>
          (result = "raised" /\ raised_in = "filename")
    /\ (Completed("filename") /\ ~InPool(string_pool, file.category_name_offset)
           /\ pc # "offsets" /\ pc # "category" /\ file.corrupt # "offsets") =>
          (result = "raised" /\ raised_in = "category")
    /\ (Completed("enum_apply") /\ ~BlackboardInPool /\ pc # "blackboard") =>
          (result = "raised" /\ raised_in = "blackboard")
    /\ (result = "raised" /\ raised_in = "blackboard") =>
          (~BlackboardInPool \/ file.corrupt = "blackboard")

\* A file was decoded whose blackboard parameter has flag bits above the
\* low 22 bits of its descriptor and a file reference; its name, notes and
\* source file are the strings of the pool.
C20_Witness ==
    /\ result = "returned"
    /\ \E t \in BBParamTypes : \E k \in 1..Len(file.blackboard.params[t]) :
          /\ file.blackboard.params[t][k].hi = 32832
          /\ self.blackboard[t][k].name = <<65, 73>>
          /\ self.blackboard[t][k].notes = <<120>>
          /\ self.blackboard[t][k].file_ref = <<120>>
          /\ self.blackboard[t][k].flags = 1

\* The decode of a file failed in the blackboard whose descriptor names a
\* byte of the pool in its lower half and a byte outside in its low 22 bits.
C20_OutsideWitness ==
    /\ result = "raised"
    /\ raised_in = "blackboard"
    /\ file.corrupt = "none"
    /\ \E t \in BBParamTypes : \E k \in 1..Len(file.blackboard.params[t]) :
          /\ InPool(OriginalPool, file.blackboard.params[t][k].lo)
          /\ ~InPool(OriginalPool, file.blackboard.params[t][k].lo
                                     + 65536 * (file.blackboard.params[t][k].hi % 64))
          /\ InPool(OriginalPool, file.blackboard.params[t][k].notes)

(***************************************************************************)
(* The order of the decode.                                                *)
(***************************************************************************)
\* The phases in the order stated for AINB.read; the category check follows
\* the section offsets, and enum resolution is the read of its table, the
\* check of the stream and the patches.
StatedOrder ==
    << "header", "string_pool", "filename", "offsets", "category", "commands",
       "enum_table", "enum_check", "enum_apply", "blackboard", "expressions",
       "properties", "attachments", "attachment_indices", "multi_sources", "io_params",
       "transitions", "queries", "actions", "modules", "blackboard_ids", "replacements",
       "nodes", "fix_queries", "trailer" >>

StatedIndex(p) == CHOOSE i \in 1..Len(StatedOrder) : StatedOrder[i] = p

\* The tables a node is built from.
NodeTables ==
    { "attachments", "attachment_indices", "properties", "io_params", "transitions",
      "queries", "actions", "modules" }

\* C21: in every run of AINB.read the phases occur in the order header,
\* string pool, filename, section offsets, commands, enum resolution,
\* blackboard, expressions, properties, attachments, attachment indirection
\* table, multi-source table, I/O parameters, transitions, query list,
\* actions, modules, blackboard ids, replacement table, nodes, query fix-up:
\* the k-th phase completed is the k-th of that order and the phase that
\* runs next is its successor; no node is decoded before the attachment,
\* attachment-index, property, parameter, transition, query, action and
\* module tables are built, and the multi-source table is complete before
\* the I/O parameters are decoded.
C21_PhaseOrder ==
    file # NoFile =>
      /\ \A k \in 1..Len(done) : done[k] = StatedOrder[k]
      /\ result = "running" => pc = StatedOrder[Len(done) + 1]
      /\ result = "raised" => raised_in = StatedOrder[Len(done) + 1]
      /\ (pc = "nodes" \/ Completed("nodes") \/ raised_in = "nodes" \/ Len(self.nodes) > 0) =>
            \A t \in NodeTables : Completed(t)
      /\ (pc = "io_params" \/ Completed("io_params") \/ raised_in = "io_params") =>
            Completed("multi_sources")

\* A file with nodes was decoded through every phase.
C21_Witness ==
    /\ result = "returned"
    /\ Len(self.nodes) > 0
    /\ Len(done) = Len(StatedOrder)

(***************************************************************************)
(* The query fix-up.                                                       *)
(***************************************************************************)
\* The position in file order of the q-th node that is a query.
QueryPosition(nodes, q) ==
    CHOOSE i \in 0..(Len(nodes) - 1) :
        /\ is_query(nodes[i + 1].flags)
        /\ Cardinality({j \in 0..(i - 1) : is_query(nodes[j + 1].flags)}) = q

\* How many nodes are queries.
QueryNodeCount(nodes) == Cardinality({i \in 1..Len(nodes) : is_query(nodes[i].flags)})

\* C22: the query fix-up runs once, after all nodes are decoded: it replaces
\* each entry q of each node's queries list by the position of the q-th
\* is-query node in file order, changes no other field of any node, and
\* makes the decode fail when q is not smaller than the number of is-query
\* nodes; apart from the node step and the fix-up no step changes the
\* nodes until the decode has returned them to the caller.
C22_QueryFixUp ==
    [][/\ (self'.nodes # self.nodes /\ modified' = modified) => pc \in {"nodes", "fix_queries"}
       /\ (pc = "fix_queries" /\ pc' # pc) =>
             /\ Completed("nodes")
             /\ ~Completed("fix_queries")
             /\ IF \E n \in 1..Len(self.nodes) : \E k \in 1..Len(self.nodes[n].queries) :
                       self.nodes[n].queries[k] >= QueryNodeCount(self.nodes)
                THEN result' = "raised" /\ raised_in' = "fix_queries" /\ self' = self
                ELSE /\ result' = "running"
                     /\ self' = [self EXCEPT !.nodes =
                           [n \in 1..Len(self.nodes) |->
                              [self.nodes[n] EXCEPT !.queries =
                                 [k \in 1..Len(self.nodes[n].queries) |->
                                    QueryPosition(self.nodes, self.nodes[n].queries[k])]]]]]_vars

\* The second node of a decoded file is its only query node; the entry 0 of
\* the query table became its position 1.
C22_Witness ==
    /\ result = "returned"
    /\ Len(self.nodes) = 2
    /\ ~is_query(self.nodes[1].flags)
    /\ is_query(self.nodes[2].flags)
    /\ self.nodes[2].queries = <<1>>
    /\ file.query_table[file.nodes[2].base_query_index + 1] = 0

\* The fix-up failed: a node names the second query node of a file that has
\* one.
C22_FailWitness ==
    /\ raised_in = "fix_queries"
    /\ QueryNodeCount(self.nodes) = 1
    /\ \E n \in 1..Len(self.nodes) : self.nodes[n].queries = <<1>>

(***************************************************************************)
(* The lists of a node and of an attachment.                               *)
(***************************************************************************)
\* The pair reaches past the end of a table of the length.
PastEnd(base_index, count, length) == base_index + count > length

\* The list is the count entries of the table from base_index on.
IsSlice(list, table, base_index, count) ==
    /\ Len(list) = count
    /\ \A k \in 1..count :
          base_index + k <= Len(table) /\ list[k] = table[base_index + k]

\* C23: for every successfully decoded node and attachment, each per-type
\* list of properties, the queries and the attachments have exactly as many
\* entries as the count declared in the file, the entries being those of
\* the file-level table at positions base_index .. base_index+count-1; a
\* (base_index, count) pair that reaches past the end of the file-level
\* table makes the decode fail rather than yield a shorter list.  The
\* queries are compared before the fix-up rewrites them.
C23_ListCounts ==
    /\ Completed("attachments") =>
          \A k \in 1..Len(file.attachments) : \A t \in ParamTypes :
              IsSlice(attachments[k].properties[t], properties[t],
                      file.attachments[k].props[t].base_index,
                      file.attachments[k].props[t].count)
    /\ Completed("nodes") =>
          \A n \in 1..Len(file.nodes) :
              /\ Len(self.nodes[n].queries) = file.nodes[n].query_count
              /\ ~Completed("fix_queries") =>
                    IsSlice(self.nodes[n].queries, queries,
                            file.nodes[n].base_query_index, file.nodes[n].query_count)
              /\ Len(self.nodes[n].attachments) = file.nodes[n].attachment_count
              /\ \A k \in 1..Len(self.nodes[n].attachments) :
                    /\ file.nodes[n].base_attachment_index + k <= Len(attachment_indices)
                    /\ self.nodes[n].attachments[k]
                          = attachments[attachment_indices[
                                file.nodes[n].base_attachment_index + k] + 1]
              /\ \A t \in ParamTypes :
                    IsSlice(self.nodes[n].properties[t], properties[t],
                            file.nodes[n].props[t].base_index, file.nodes[n].props[t].count)

\* A file was decoded whose node declares one query from position 1 on of an
\* empty query table, and the node has no queries.
C23_ShortList ==
    /\ result = "returned"
    /\ \E n \in 1..Len(file.nodes) :
          /\ PastEnd(file.nodes[n].base_query_index, file.nodes[n].query_count,
                     Len(file.query_table))
          /\ Len(self.nodes[n].queries) < file.nodes[n].query_count

(***************************************************************************)
(* Ownership of the contents of a node.                                    *)
(***************************************************************************)
\* C24: after a successful decode each node exclusively owns its contents:
\* modifying an attachment, a property or a transition reached through one
\* node changes the as_dict() of no other node, including when two nodes
\* reference the same attachment index, overlapping property ranges or the
\* same transition index.
C24_NodesOwnContents ==
    [][modified' # modified =>
         \A m \in 1..Len(self.nodes) :
             m - 1 # modified' => Node_as_dict(self'.nodes[m]) = Node_as_dict(self.nodes[m])]_vars

\* The caller renamed the attachment of the first node and the attachment
\* of the second node has the new name.
C24_SharedAttachment ==
    /\ trip = "modify"
    /\ modified = 0
    /\ Len(self.nodes) = 2
    /\ Len(self.nodes[2].attachments) > 0
    /\ self.nodes[2].attachments[1].name = <<121>>

(***************************************************************************)
(* Enum patches and the size of the buffer.                                *)
(***************************************************************************)
\* C25: applying an enum patch never changes the length of the buffer, and
\* a patch whose range [patch_offset, patch_offset + 4) is not fully inside
\* the buffer is skipped with a warning: no byte is written at or beyond
\* the size of the buffer.
C25_BufferSizeKept ==
    [][ enum_i' = enum_i + 1 =>
          /\ Len(stream') = Len(stream)
          /\ CurEntry.patch_offset + 4 > Len(stream) =>
                (stream' = stream /\ warnings' = warnings + 1)
      ]_vars

\* A patch in the last three bytes of the buffer has been written and the
\* buffer is longer than the input was.
C25_Grown ==
    /\ file = NoFile
    /\ pass = 1
    /\ enum_i = 1
    /\ n_writes = 1
    /\ enums_to_resolve[1].patch_offset = BufLen - 1
    /\ Len(stream) = BufLen + 3

(***************************************************************************)
(* SpecDb: AINB.set_enum_db (ainb.py:378-414) and the patches applied      *)
(* with the database it installed.  The arguments are Python values: a     *)
(* value carries its type, a dict its keys and values in order.            *)
(***************************************************************************)
MaxDbCalls == 2

PyStr(str) == [type |-> "str", s |-> str]

PyIntObj(n) == [type |-> "int", n |-> PyInt(n)]

PyList == [type |-> "list"]

PyDict(keys, values) == [type |-> "dict", keys |-> keys, values |-> values]

\* {"E1": {"A": 2**31}}
WideArgument ==
    PyDict(<<PyStr("E1")>>, <<PyDict(<<PyStr("A")>>, <<[type |-> "int", n |-> PyInt_2_31]>>)>>)

\* {"E1": {"A": -2, "B": 258}, "E2": {"A": 1}}
GameArgument ==
    PyDict(<<PyStr("E1"), PyStr("E2")>>,
           <<PyDict(<<PyStr("A"), PyStr("B")>>, <<PyIntObj(-2), PyIntObj(258)>>),
             PyDict(<<PyStr("A")>>, <<PyIntObj(1)>>)>>)

\* [], {1: {}}, {"E1": 5}, {"E1": {1: 2}}, {"E1": {"A": "x"}}, {} and the two
\* above.
DbArguments ==
    { PyList,
      PyDict(<<PyIntObj(1)>>, <<PyDict(<<>>, <<>>)>>),
      PyDict(<<PyStr("E1")>>, <<PyIntObj(5)>>),
      PyDict(<<PyStr("E1")>>, <<PyDict(<<PyIntObj(1)>>, <<PyIntObj(2)>>)>>),
      PyDict(<<PyStr("E1")>>, <<PyDict(<<PyStr("A")>>, <<PyStr("x")>>)>>),
      PyDict(<<>>, <<>>),
      WideArgument,
      GameArgument }

\* AINB._verify_enum_db
verify_enum_db(db) ==
    IF db.type # "dict" THEN FALSE
    ELSE \A i \in 1..Len(db.keys) :
            /\ db.keys[i].type = "str"
            /\ db.values[i].type = "dict"
            /\ \A j \in 1..Len(db.values[i].keys) :
                  /\ db.values[i].keys[j].type = "str"
                  /\ db.values[i].values[j].type = "int"

\* The dict of dicts of a verified argument as the mapping the lookups use.
ToDb(db) ==
    [c \in {db.keys[i].s : i \in 1..Len(db.keys)} |->
        LET i == CHOOSE i \in 1..Len(db.keys) : db.keys[i].s = c
            values == db.values[i]
        IN  [v \in {values.keys[j].s : j \in 1..Len(values.keys)} |->
                values.values[CHOOSE j \in 1..Len(values.keys) : values.keys[j].s = v].n]]

\* The patches of the runs with an installed database: inside the buffer.
DbEntries == {e \in EnumEntry : e.patch_offset = 1}

InitDb ==
    /\ stream = [i \in 1..BufLen |-> 170]
    /\ ENUM_DB = EmptyDb
    /\ enums_to_resolve \in PatchListsOf(DbEntries)
    /\ enum_i = 0
    /\ pass = 1
    /\ warnings = 0
    /\ n_writes = 0
    /\ after_first = <<>>
    /\ ReadIdle

\* AINB.set_enum_db(new_db), called before the patches are applied.
SetEnumDb ==
    /\ enum_i = 0
    /\ result = "running"
    /\ Len(db_log) < MaxDbCalls
    /\ \E new_db \in DbArguments :
          IF verify_enum_db(new_db)
          THEN /\ ENUM_DB' = ToDb(new_db)
               /\ db_log' = Append(db_log, [arg |-> new_db, outcome |-> "installed"])
          ELSE /\ ENUM_DB' = ENUM_DB
               /\ db_log' = Append(db_log, [arg |-> new_db, outcome |-> "AssertionError"])
    /\ UNCHANGED <<stream, enums_to_resolve, enum_i, warnings, n_writes, passVars, readVars,
                   tripVars, posVars, sideVars, tableVars, offsets, graph>>

NextDb == SetEnumDb \/ ApplyPatch

SpecDb == InitDb /\ [][NextDb]_vars

\* A mapping from strings to mappings from strings to signed 32-bit
\* integers.
IsInt32Mapping(db) ==
    /\ verify_enum_db(db)
    /\ \A i \in 1..Len(db.keys) : \A j \in 1..Len(db.values[i].keys) :
          FitsInt32(db.values[i].values[j].n)

\* C26: set_enum_db installs its argument only if it is a mapping from
\* strings to mappings from strings to signed 32-bit integers, any other
\* argument is rejected and the installed database is left as it was, and
\* no patch of a known name fails to be written.
C26_OnlyInt32Installed ==
    [][ /\ Len(db_log') > Len(db_log) =>
             LET call == db_log'[Len(db_log')]
             IN  IF IsInt32Mapping(call.arg)
                 THEN call.outcome = "installed" /\ ENUM_DB' = ToDb(call.arg)
                 ELSE call.outcome = "AssertionError" /\ ENUM_DB' = ENUM_DB
        /\ result' # "raised"
      ]_vars

\* The database with the value 2^31 was installed and the patch that names
\* the value raised in struct.pack, the buffer as it was.
C26_PackFails ==
    /\ Len(db_log) > 0
    /\ db_log[Len(db_log)].arg = WideArgument
    /\ db_log[Len(db_log)].outcome = "installed"
    /\ result = "raised"
    /\ raised_in = "enum_apply"
    /\ stream = [i \in 1..BufLen |-> 170]

(***************************************************************************)
(* The plugs of a node through its dictionary.                             *)
(***************************************************************************)
\* Node._from_dict(n._as_dict(), i) for the node at position i (from 0).
NodeThroughDict(i) == Node_from_dict(Node_as_dict(self.nodes[i + 1]), i)

\* C27: for every decoded node n at position i, Node._from_dict(n._as_dict(), i)
\* rebuilds every plug in the same slot and position with the same class
\* and the same field values: target node index, name, condition or bounds,
\* is_default, blackboard indices of the selector plugs, transition fields.
C27_PlugsRebuilt ==
    (result = "returned" /\ modified = -1) =>
        \A i \in 0..(Len(self.nodes) - 1) :
            /\ NodeThroughDict(i).ok
            /\ \A t \in PlugTypes :
                  get_plugs(NodeThroughDict(i).val, t) = get_plugs(self.nodes[i + 1], t)

\* A decoded S32 selector plug that holds a blackboard index comes back
\* from its dictionary without it.
C27_IndexLost ==
    /\ result = "returned"
    /\ modified = -1
    /\ Len(self.nodes) = 1
    /\ self.nodes[1].type = Element_S32Selector
    /\ Len(self.nodes[1].child_plugs) = 2
    /\ self.nodes[1].child_plugs[1].blackboard_index = 0
    /\ NodeThroughDict(0).ok
    /\ NodeThroughDict(0).val.child_plugs[1].blackboard_index = -1

(***************************************************************************)
(* SpecTable: AINB._read_transitions (ainb.py:322-340) over the bytes of   *)
(* the buffer.  A 32-bit word is held as the four bytes read; a read that  *)
(* would exceed the buffer raises.                                         *)
(***************************************************************************)
MaxWords == 4

\* The four bytes of the unsigned 32-bit value n, n below 2^31.
Word(n) == Pack_i32(n)

\* The words the buffers are made of: the offsets 2 and 8, which are flag
\* words of the types 2 and 8 as well, and the flag words of type 1 and of
\* type 0 with bit 31.
TableWords == {Word(2), Word(8), <<1, 0, 0, 128>>, <<0, 0, 0, 128>>}

RECURSIVE Flatten(_)
Flatten(words) == IF words = <<>> THEN <<>> ELSE Head(words) \o Flatten(Tail(words))

TableBuffers == {Flatten(ws) : ws \in UNION {[1..n -> TableWords] : n \in 1..MaxWords}}

\* The string pool of the runs: "x", "A".
TablePool == <<120, 0, 65, 0>>

\* The value of a word whose top bit is clear.
WordValue(w) == read_u32(w, 0)

\* reader.tell() < offset, for the offset a word holds; a position is below
\* 2^31.
TellBelow(pos, w) == IF w[4] >= 128 THEN TRUE ELSE pos < WordValue(w)

\* Whether the n bytes at pos are inside the buffer.
CanRead(s, pos, n) == pos >= 0 /\ pos + n <= Len(s)

\* flags & 0xff
transition_type_of(flags) == flags[1]

\* (flags >> 0x1f & 1) != 0
update_post_calc_LowBit(flags) == flags[1] % 2

update_post_calc_of(flags) == flags[4] \div 128

\* AINB._read_transition(reader, offset): seek, the flag word, and the name
\* for type 0; the Transition and the cursor after it.
read_transition_at(s, w, pool) ==
    IF (IF w[4] >= 128 THEN TRUE ELSE ~CanRead(s, WordValue(w), 4))
    THEN [ok |-> FALSE, val |-> NoTransition, cursor |-> 0]
    ELSE LET offset == WordValue(w)
             flags == Slice(s, offset, offset + 4)
             named == transition_type_of(flags) = 0
         IN  IF named /\ ~CanRead(s, offset + 4, 4)
             THEN [ok |-> FALSE, val |-> NoTransition, cursor |-> offset + 4]
             ELSE LET name == Slice(s, offset + 4, offset + 8)
                      r == IF named /\ name[4] >= 128 THEN Raised
                           ELSE read_transition(
                                  [transition_type |-> transition_type_of(flags),
                                   update_post_calc |-> update_post_calc_of(flags),
                                   command_name |-> IF named THEN WordValue(name) ELSE 0],
                                  pool)
                  IN  [ok |-> r.ok,
                       val |-> IF r.ok THEN r.val ELSE NoTransition,
                       cursor |-> IF named THEN offset + 8 ELSE offset + 4]

InitTable ==
    /\ stream \in TableBuffers
    /\ file \in {[magic |-> "table", transition_offset |-> t] : t \in {0, 4}}
    /\ cursor = file.transition_offset
    /\ cursor <= Len(stream)
    /\ string_pool = TablePool
    /\ pc = "offsets"
    /\ offsets = <<>>
    /\ graph = NoGraph
    /\ transitions = <<>>
    /\ result = "running"
    /\ raised_in = "none"
    /\ ENUM_DB = EmptyDb
    /\ enums_to_resolve = <<>>
    /\ enum_i = 0
    /\ pass = 1
    /\ warnings = 0
    /\ n_writes = 0
    /\ after_first = <<>>
    /\ writable = TRUE
    /\ self = NoSelf
    /\ queries = <<>>
    /\ done = <<>>
    /\ trip = "none"
    /\ new = NoNew
    /\ log = <<>>
    /\ exb_cursor = 0
    /\ node_calls = <<>>
    /\ input = NoData
    /\ cli = NoCli
    /\ attachments = <<>>
    /\ attachment_indices = <<>>
    /\ properties = [t \in 0..5 |-> <<>>]
    /\ modified = -1
    /\ db_log = <<>>

\* offsets = [reader.read_u32()] and every offsets.append(reader.read_u32())
\* of the loop while reader.tell() < offsets[0].
ReadOffset ==
    /\ file.magic = "table"
    /\ pc = "offsets"
    /\ result = "running"
    /\ IF offsets = <<>> THEN TRUE ELSE TellBelow(cursor, offsets[1])
    /\ IF CanRead(stream, cursor, 4)
       THEN /\ offsets' = Append(offsets, Slice(stream, cursor, cursor + 4))
            /\ cursor' = cursor + 4
            /\ UNCHANGED <<pc, result, raised_in>>
       ELSE /\ pc' = "done"
            /\ result' = "raised"
            /\ raised_in' = "offsets"
            /\ UNCHANGED <<offsets, cursor>>
    /\ UNCHANGED <<enumVars, passVars, tripVars, sideVars, tableVars, db_log, graph, log,
                   exb_cursor, node_calls, file, writable, string_pool, self, queries,
                   transitions, done>>

\* The loop ends: reader.tell() >= offsets[0].
EndOffsets ==
    /\ file.magic = "table"
    /\ pc = "offsets"
    /\ result = "running"
    /\ offsets # <<>>
    /\ ~TellBelow(cursor, offsets[1])
    /\ pc' = "entries"
    /\ UNCHANGED <<enumVars, passVars, tripVars, posVars, sideVars, dbVars, tableVars,
                   file, writable, string_pool, self, queries, transitions, result, raised_in,
                   done>>

\* AINB._read_transition(reader, offset) for the next offset of the list.
ReadTransition ==
    /\ file.magic = "table"
    /\ pc = "entries"
    /\ result = "running"
    /\ Len(transitions) < Len(offsets)
    /\ LET r == read_transition_at(stream, offsets[Len(transitions) + 1], string_pool)
       IN  /\ cursor' = r.cursor
           /\ IF r.ok
              THEN /\ transitions' = Append(transitions, r.val)
                   /\ UNCHANGED <<pc, result, raised_in>>
              ELSE /\ pc' = "done"
                   /\ result' = "raised"
                   /\ raised_in' = "entries"
                   /\ UNCHANGED transitions
    /\ UNCHANGED <<enumVars, passVars, tripVars, sideVars, dbVars, tableVars, log, exb_cursor,
                   node_calls, file, writable, string_pool, self, queries, done>>

\* return [...]: a Transition for every offset.
ReturnTransitions ==
    /\ file.magic = "table"
    /\ pc = "entries"
    /\ result = "running"
    /\ Len(transitions) = Len(offsets)
    /\ pc' = "done"
    /\ result' = "returned"
    /\ UNCHANGED <<enumVars, passVars, tripVars, posVars, sideVars, dbVars, tableVars,
                   file, writable, string_pool, self, queries, transitions, raised_in, done>>

NextTable == ReadOffset \/ EndOffsets \/ ReadTransition \/ ReturnTransitions

SpecTable == InitTable /\ [][NextTable]_vars

\* The call is not suspended: a step that can be taken is taken.
SpecTableLive == SpecTable /\ WF_vars(NextTable)

\* The offset the k-th word of the table holds.
TableOffset(k) ==
    Slice(stream, file.transition_offset + 4 * (k - 1), file.transition_offset + 4 * k)

\* C28: AINB._read_transitions terminates for every buffer, by a return or
\* by an exception; it reads the 32-bit offsets from transition_offset until
\* the cursor reaches the value of the first offset read and reads at least
\* one; it returns one Transition per offset read, in the order of the
\* offset table, with type = low byte of the flag word at the offset,
\* update_post_calc = bit 31 of it, and a command name read only for type 0.
C28_ReadTransitionsTerminates ==
    /\ <>(result # "running")
    /\ [](result = "returned" =>
            /\ Len(offsets) >= 1
            /\ Len(transitions) = Len(offsets)
            /\ ~TellBelow(file.transition_offset + 4 * Len(offsets), TableOffset(1))
            /\ \A k \in 1..Len(offsets) :
                  /\ offsets[k] = TableOffset(k)
                  /\ k > 1 => TellBelow(file.transition_offset + 4 * (k - 1), TableOffset(1))
                  /\ LET at == WordValue(offsets[k])
                     IN  /\ transitions[k].transition_type = stream[at + 1]
                         /\ transitions[k].update_post_calc = (stream[at + 4] >= 128)
                         /\ transitions[k].command_name =
                               IF stream[at + 1] = 0
                               THEN get_string(string_pool, read_u32(stream, at + 4))
                               ELSE <<>>)

\* A table of two offsets was read and returned: both name the flag word
\* of type 0 with bit 31 at offset 8, followed by the offset of the name "A".
C28_Witness ==
    /\ file.magic = "table"
    /\ file.transition_offset = 0
    /\ result = "returned"
    /\ Len(offsets) = 2
    /\ transitions[1] = [transition_type |-> 0, update_post_calc |-> TRUE, command_name |-> <<65>>]
    /\ transitions[2] = transitions[1]

\* A first offset past the end of the buffer: the loop ran to the end of
\* the buffer and the read past it raised.
C28_RaisedWitness ==
    /\ file.magic = "table"
    /\ result = "raised"
    /\ raised_in = "offsets"
    /\ Len(offsets) = MaxWords
    /\ cursor = Len(stream)

(***************************************************************************)
(* The state info of a node.                                               *)
(***************************************************************************)
\* C29: for every decoded node, in a file of version 0x407 state_info is
\* absent and a non-zero state-info offset only emits a warning; in a file
\* of version 0x404 state_info is present only when the state-info offset
\* of the node is non-zero, and is then the record at that offset: no state
\* info is read for an offset of 0.
C29_StateInfoByVersion ==
    /\ (Completed("nodes") /\ modified = -1) =>
          \A k \in 1..Len(self.nodes) :
              LET rn == file.nodes[k]
              IN  IF self.version >= 1031
                  THEN /\ self.nodes[k].state_info = <<>>
                       /\ rn.state_info_offset # 0 =>
                             \E j \in 1..Len(log) :
                                 log[j] = ParseWarning("state info unsupported", k - 1)
                  ELSE IF rn.state_info_offset = 0
                  THEN self.nodes[k].state_info = <<>>
                  ELSE self.nodes[k].state_info =
                         <<[desired_state |-> get_string(string_pool, rn.state_info.desired_state),
                            unk04 |-> rn.state_info.unk04]>>
    /\ \A k \in 1..Len(node_calls) :
          node_calls[k].at = "state_info" => file.nodes[k].state_info_offset # 0

\* The read of a file of version 0x404 whose first node has the state-info
\* offset 0 ended in the state info of that node.
C29_HeaderRead ==
    /\ file # NoFile
    /\ file.version = 1028
    /\ Len(file.nodes) > 0
    /\ file.nodes[1].state_info_offset = 0
    /\ result = "raised"
    /\ raised_in = "nodes"
    /\ Len(node_calls) = 1
    /\ node_calls[1].at = "state_info"

(***************************************************************************)
(* SpecGraph: Graph.add_node (graph/graph.py:257-320) on a decoded AINB.   *)
(* Graph.nodes is a dict from the stored index of a node to its GraphNode, *)
(* held as the list of (index, position) pairs in insertion order; a call  *)
(* in progress is a frame: the position of its node and how far its loops  *)
(* over the child plugs, the transition plugs and the queries have come.   *)
(* An edge is the pair of its endpoints.                                   *)
(***************************************************************************)
MaxGraphNodes == 2

\* What a node of the objects links to: nothing, or a node through a child
\* plug, a transition plug or a query.  A plug may name a node that does
\* not exist; a query is the position of a node after the fix-up.
Links(n) ==
    {[kind |-> "none", to |-> 0]}
      \cup {[kind |-> k, to |-> t] : k \in {"child", "transition"}, t \in 0..n}
      \cup {[kind |-> "query", to |-> t] : t \in 0..(n - 1)}

\* The decoded node at a position with a stored index and a link.
GraphNodeOf(index, link) ==
    [type |-> UserDefined, index |-> index,
     child_plugs |-> IF link.kind = "child"
                     THEN <<[class |-> "ChildPlug", node_index |-> link.to, name |-> <<120>>]>>
                     ELSE <<>>,
     transition_plugs |-> IF link.kind = "transition"
                          THEN <<[class |-> "TransitionPlug", node_index |-> link.to,
                                  transition |-> NoTransition]>>
                          ELSE <<>>,
     queries |-> IF link.kind = "query" THEN <<link.to>> ELSE <<>>]

\* The node lists of the decoded objects: the stored index of a node is its
\* position or, the decoder only warning about it, 0.
GraphNodeLists ==
    UNION {{[p \in 1..n |-> GraphNodeOf(ix[p], ln[p])] :
              ix \in [1..n -> {0, 1}] , ln \in [1..n -> Links(n)]} : n \in 1..MaxGraphNodes}

\* AINB.get_node: the position, or None (-1).
get_node(nodes, node_index) ==
    IF node_index < 0 \/ node_index >= Len(nodes) THEN -1 ELSE node_index

\* node.index in self.nodes
InGraph(g, index) == \E k \in 1..Len(g.nodes) : g.nodes[k][1] = index

\* The frame of the call in progress and its node.
Frame == graph.stack[Len(graph.stack)]

FrameNode == self.nodes[Frame.pos + 1]

\* The stack with the frame on top moved to the next pass of its loops.
Stepped == [graph.stack EXCEPT ![Len(graph.stack)].i = Frame.i + 1]

\* The stack after the return of the call on top, and the status then.
Popped == SubSeq(graph.stack, 1, Len(graph.stack) - 1)

StatusAfterReturn == IF Len(graph.stack) = 1 THEN "returned" ELSE "running"

InitGraph ==
    /\ self \in {[NoSelf EXCEPT !.version = 1031, !.nodes = ns] : ns \in GraphNodeLists}
    /\ self.nodes[1].index = 0
    /\ \A p \in 1..Len(self.nodes) : self.nodes[p].index \in {0, p - 1}
    /\ graph = [NoGraph EXCEPT !.stack = <<[pos |-> 0, i |-> 0]>>, !.status = "running"]
    /\ stream = <<>>
    /\ file = NoFile
    /\ cursor = 0
    /\ string_pool = <<>>
    /\ pc = "done"
    /\ offsets = <<>>
    /\ transitions = <<>>
    /\ result = "returned"
    /\ raised_in = "none"
    /\ ENUM_DB = EmptyDb
    /\ enums_to_resolve = <<>>
    /\ enum_i = 0
    /\ pass = 1
    /\ warnings = 0
    /\ n_writes = 0
    /\ after_first = <<>>
    /\ writable = TRUE
    /\ queries = <<>>
    /\ done = <<>>
    /\ trip = "none"
    /\ new = NoNew
    /\ log = <<>>
    /\ exb_cursor = 0
    /\ node_calls = <<>>
    /\ input = NoData
    /\ cli = NoCli
    /\ attachments = <<>>
    /\ attachment_indices = <<>>
    /\ properties = [t \in 0..5 |-> <<>>]
    /\ modified = -1
    /\ db_log = <<>>

GraphUnchanged ==
    UNCHANGED <<enumVars, passVars, readVars, tripVars, posVars, sideVars, tableVars,
                db_log, offsets>>

\* The entry of add_node: the root is recorded, a node whose index is in
\* the graph returns at once, another is inserted (lines 261-266).
AddNodeEnter ==
    /\ graph.status = "running"
    /\ Frame.i = 0
    /\ LET root == IF Len(graph.stack) = 1 THEN FrameNode.index ELSE graph.root_index
       IN  IF InGraph(graph, FrameNode.index)
           THEN graph' = [graph EXCEPT !.root_index = root, !.stack = Popped,
                                       !.status = StatusAfterReturn]
           ELSE graph' = [graph EXCEPT !.root_index = root, !.stack = Stepped,
                                       !.nodes = Append(@, <<FrameNode.index, Frame.pos>>),
                                       !.inserted = Append(@, FrameNode.index)]
    /\ GraphUnchanged

\* A pass of the loop over node.child_plugs: the edge, then the call for
\* the child, or GraphError when there is no such node (lines 274-302).
AddChildPlug ==
    /\ graph.status = "running"
    /\ Frame.i >= 1
    /\ Frame.i <= Len(FrameNode.child_plugs)
    /\ LET plug == FrameNode.child_plugs[Frame.i]
           edges == graph.generic_edges \cup {<<FrameNode.index, plug.node_index>>}
           child_node == get_node(self.nodes, plug.node_index)
       IN  IF child_node = -1
           THEN graph' = [graph EXCEPT !.generic_edges = edges, !.status = "GraphError"]
           ELSE graph' = [graph EXCEPT !.generic_edges = edges,
                                       !.stack = Append(Stepped, [pos |-> child_node, i |-> 0])]
    /\ GraphUnchanged

\* A pass of the loop over node.transition_plugs (lines 303-315).
AddTransitionPlug ==
    /\ graph.status = "running"
    /\ Frame.i > Len(FrameNode.child_plugs)
    /\ Frame.i <= Len(FrameNode.child_plugs) + Len(FrameNode.transition_plugs)
    /\ LET plug == FrameNode.transition_plugs[Frame.i - Len(FrameNode.child_plugs)]
           edges == graph.transition_edges \cup {<<FrameNode.index, plug.node_index>>}
           target_node == get_node(self.nodes, plug.node_index)
       IN  IF target_node = -1
           THEN graph' = [graph EXCEPT !.transition_edges = edges, !.status = "GraphError"]
           ELSE graph' = [graph EXCEPT !.transition_edges = edges,
                                       !.stack = Append(Stepped, [pos |-> target_node, i |-> 0])]
    /\ GraphUnchanged

\* A pass of the loop over node.queries (lines 316-320).
AddQuery ==
    /\ graph.status = "running"
    /\ Frame.i > Len(FrameNode.child_plugs) + Len(FrameNode.transition_plugs)
    /\ Frame.i <= Len(FrameNode.child_plugs) + Len(FrameNode.transition_plugs)
                    + Len(FrameNode.queries)
    /\ LET query == FrameNode.queries[Frame.i - Len(FrameNode.child_plugs)
                                              - Len(FrameNode.transition_plugs)]
           query_node == get_node(self.nodes, query)
       IN  IF query_node = -1
           THEN graph' = [graph EXCEPT !.status = "GraphError"]
           ELSE graph' = [graph EXCEPT !.stack = Append(Stepped, [pos |-> query_node, i |-> 0])]
    /\ GraphUnchanged

\* The loops are through: the call returns.
AddNodeReturn ==
    /\ graph.status = "running"
    /\ Frame.i > Len(FrameNode.child_plugs) + Len(FrameNode.transition_plugs)
                    + Len(FrameNode.queries)
    /\ graph' = [graph EXCEPT !.stack = Popped, !.status = StatusAfterReturn]
    /\ GraphUnchanged

NextGraph == AddNodeEnter \/ AddChildPlug \/ AddTransitionPlug \/ AddQuery \/ AddNodeReturn

SpecGraph == InitGraph /\ [][NextGraph]_vars

\* The call is not suspended: a step that can be taken is taken.
SpecGraphLive == SpecGraph /\ WF_vars(NextGraph)

\* The positions a child plug, a transition plug or a query of the node at
\* position p leads to.
Successors(p) ==
    LET node == self.nodes[p + 1]
    IN  {t \in 0..(Len(self.nodes) - 1) :
            \/ \E k \in 1..Len(node.child_plugs) : node.child_plugs[k].node_index = t
            \/ \E k \in 1..Len(node.transition_plugs) : node.transition_plugs[k].node_index = t
            \/ \E k \in 1..Len(node.queries) : node.queries[k] = t}

RECURSIVE ReachableFrom(_, _)
ReachableFrom(seen, n) ==
    IF n = 0 THEN seen
    ELSE ReachableFrom(seen \cup UNION {Successors(p) : p \in seen}, n - 1)

\* The positions reachable from the start node.
Reachable == ReachableFrom({0}, Len(self.nodes))

\* C30: Graph.add_node terminates on every decoded AINB; each node index is
\* inserted into the graph at most once; when it returns without GraphError
\* every node reachable from the start node through child plugs,
\* transition plugs and queries is in the graph, and both endpoints of
\* every generic and transition edge are nodes of the graph.
C30_AddNode ==
    /\ <>(graph.status # "running")
    /\ [](/\ \A j, k \in 1..Len(graph.inserted) :
                graph.inserted[j] = graph.inserted[k] => j = k
          /\ graph.status = "returned" =>
                /\ \A p \in Reachable :
                      \E k \in 1..Len(graph.nodes) : graph.nodes[k][2] = p
                /\ \A e \in graph.generic_edges \cup graph.transition_edges :
                      InGraph(graph, e[1]) /\ InGraph(graph, e[2]))

\* add_node returned for an object of two nodes that both store the index
\* 0, the first with a child plug to the second: the graph holds the first
\* node only, and the edge ends at the index 1, which is no node of it.
C30_NodeMissing ==
    /\ graph.status = "returned"
    /\ Len(self.nodes) = 2
    /\ self.nodes[2].index = 0
    /\ graph.nodes = << <<0, 0>> >>
    /\ graph.generic_edges = {<<0, 1>>}

\* add_node returned for an object whose two nodes name each other, through
\* a child plug and through a transition plug: both are in the graph.
C30_CycleDone ==
    /\ graph.status = "returned"
    /\ Len(self.nodes) = 2
    /\ self.nodes[2].index = 1
    /\ Len(self.nodes[1].child_plugs) = 1
    /\ Len(self.nodes[2].transition_plugs) = 1
    /\ self.nodes[2].transition_plugs[1].node_index = 0
    /\ Len(graph.nodes) = 2

\* With the stored index of every node equal to its position the graph of
\* a call that returned holds every reachable node and the ends of every
\* edge.
C30_ConsistentIndices ==
    (/\ graph.status = "returned"
     /\ \A p \in 1..Len(self.nodes) : self.nodes[p].index = p - 1) =>
        /\ \A p \in Reachable : \E k \in 1..Len(graph.nodes) : graph.nodes[k][2] = p
        /\ \A e \in graph.generic_edges \cup graph.transition_edges :
              InGraph(graph, e[1]) /\ InGraph(graph, e[2])

\* Every call of add_node ends.
C30_Terminates == <>(graph.status # "running")

(***************************************************************************)
(* SpecCli: the command line tool (__main__.py).  A run is its arguments   *)
(* and what it finds: whether the input file exists, whether the output    *)
(* directory exists, whether the enum database of the game is found and    *)
(* whether the decode of the input raises.                                 *)
(***************************************************************************)
\* str.lower() on the type names of the runs.
Lower(t) ==
    CASE t = "AINB" -> "ainb" [] t = "JSON" -> "json" [] OTHER -> t

\* os.path.splitext(path)[1][1:]
Extension(path) ==
    CASE path = "a.ainb" -> "ainb" [] path = "a.json" -> "json" [] path = "a.txt" -> "txt"
      [] OTHER -> ""

\* GAME_TO_VERSION_MAP.get(game, None); 0 stands for None.
GAME_TO_VERSION_MAP(game) ==
    CASE game = "s3" -> 1028 [] game = "totk" -> 1031 [] game = "smw" -> 1031
      [] OTHER -> 0

CliRuns ==
    [at : {"main"}, status : {-1}, read_only : {TRUE}, converted : {FALSE},
     input_file_path : {"", "a.ainb", "a.json", "a.txt"},
     exists : BOOLEAN,
     in_type : {"", "AINB", "json", "xml"},
     out_type : {"", "ainb", "JSON", "xml"},
     output_path : {"", "new", "existing"},
     game : {"totk", "s3", "nss"},
     db_found : BOOLEAN,
     decodes : BOOLEAN]

\* The outcome of main(): the exit status of the process, 0 for sys.exit(0)
\* and for a return, 1 for an exception that nothing catches; whether the
\* input was converted; and the read_only argument of AINB.from_file.
main(run) ==
    LET in_file_type == IF Lower(run.in_type) = "" THEN Extension(run.input_file_path)
                        ELSE Lower(run.in_type)
        out_file_type == Lower(run.out_type)
        expected_version == GAME_TO_VERSION_MAP(run.game)
        read_only == ~(expected_version = 0 \/ expected_version < 1031)
        exit(status, converted) ==
            [run EXCEPT !.at = "exited", !.status = status, !.converted = converted,
                        !.read_only = read_only]
    IN  IF run.input_file_path = "" THEN exit(0, FALSE)
        ELSE IF ~run.exists THEN exit(0, FALSE)
        ELSE IF run.output_path = "existing" THEN exit(1, FALSE)
        ELSE IF in_file_type = "ainb"
        THEN IF out_file_type = "" \/ out_file_type = "json"
             THEN IF run.decodes THEN exit(0, TRUE) ELSE exit(1, FALSE)
             ELSE exit(0, FALSE)
        ELSE exit(0, FALSE)

InitCli ==
    /\ stream = <<>>
    /\ ENUM_DB = EmptyDb
    /\ enums_to_resolve = <<>>
    /\ enum_i = 0
    /\ pass = 1
    /\ warnings = 0
    /\ n_writes = 0
    /\ after_first = <<>>
    /\ file = NoFile
    /\ writable = TRUE
    /\ pc = "main"
    /\ string_pool = <<>>
    /\ self = NoSelf
    /\ queries = <<>>
    /\ transitions = <<>>
    /\ result = "running"
    /\ raised_in = "none"
    /\ done = <<>>
    /\ trip = "none"
    /\ new = NoNew
    /\ cursor = 0
    /\ log = <<>>
    /\ exb_cursor = 0
    /\ node_calls = <<>>
    /\ input = NoData
    /\ cli \in CliRuns
    /\ attachments = <<>>
    /\ attachment_indices = <<>>
    /\ properties = [t \in 0..5 |-> <<>>]
    /\ modified = -1
    /\ db_log = <<>>
    /\ offsets = <<>>
    /\ graph = NoGraph

\* main(): the enum database of the game is installed when the run gets as
\* far as loading it and finds it (lines 59-65).
Main ==
    /\ cli.at = "main"
    /\ cli' = main(cli)
    /\ ENUM_DB' = IF cli.input_file_path # "" /\ cli.exists /\ cli.output_path # "existing"
                      /\ cli.db_found
                   THEN GameDb ELSE ENUM_DB
    /\ UNCHANGED <<stream, enums_to_resolve, enum_i, warnings, n_writes, passVars, readVars,
                   tripVars, posVars, input, modified, dbVars, tableVars>>

NextCli == Main

SpecCli == InitCli /\ [][NextCli]_vars

\* The type of the input and of the output as main() takes them.
InFileType ==
    IF Lower(cli.in_type) = "" THEN Extension(cli.input_file_path) ELSE Lower(cli.in_type)

OutFileType == Lower(cli.out_type)

\* C19: the command line tool exits with status 0 on success and when it
\* prints its help, and with a non-zero status when the input file does not
\* exist, when the input type is neither ainb nor json and when the output
\* type is neither ainb nor json.
C19_ExitStatus ==
    cli.at = "exited" =>
        /\ cli.input_file_path = "" => cli.status = 0
        /\ cli.converted => cli.status = 0
        /\ (cli.input_file_path # "" /\ ~cli.exists) => cli.status # 0
        /\ (cli.input_file_path # "" /\ cli.exists /\ InFileType \notin {"ainb", "json"}) =>
              cli.status # 0
        /\ (cli.input_file_path # "" /\ cli.exists /\ OutFileType \notin {"", "ainb", "json"}) =>
              cli.status # 0

=============================================================================
